---- MODULE Spec2Model ----
(***************************************************************************)
(* Model of the UAE gazette RSS pipeline (src/rss-uae):                    *)
(*   GazetteRSSProcessor (gazette_rss_processor.py)  the batch workflow    *)
(*   RSSProcessor        (rss_processor.py)          download / cleanup    *)
(*   PDFTextExtractor    (pdf_extractor.py)          text extraction       *)
(*   DocumentProcessor   (document_processor.py)     extract/validate/     *)
(*                                                   improve against LLM   *)
(* The program is single threaded.  One action is the code between two     *)
(* collaborator calls, with the collaborator's answer as its input.        *)
(***************************************************************************)
EXTENDS Integers, Sequences, FiniteSets, TLC

(***************************************************************************)
(* Bounds of the model.                                                    *)
(***************************************************************************)
MaxFeed == 3
MaxRecords == 3

(***************************************************************************)
(* Program constants.                                                      *)
(***************************************************************************)
MinMethodLen == 50
LowQuality == 70
OcrMargin == 15
MinTextLen == 10
MinScoredLen == 10

(***************************************************************************)
(* JSON values.  Every value is a record of one shape, so that any two     *)
(* values can be compared: t is the JSON type, s the string (or, for a     *)
(* mapping, a tag naming its content), l the list's items (or, for a       *)
(* mapping, its keys).                                                     *)
(***************************************************************************)
Str(x) == [t |-> "str", s |-> x, l |-> <<>>]
List(xs) == [t |-> "list", s |-> "", l |-> xs]
Map(tag, keys) == [t |-> "map", s |-> tag, l |-> keys]
Null == [t |-> "null", s |-> "", l |-> <<>>]
EmptyMap == Map("", <<>>)
NoneStr == Str("None")

Range(q) == {q[i] : i \in DOMAIN q}

(* A record (a Python dict) is a function from its keys to JSON values. *)
EmptyRec == [key \in {} |-> Null]
NoRecord == [no_record |-> Null]
Has(r, key) == key \in DOMAIN r
Get(r, key, default) == IF key \in DOMAIN r THEN r[key] ELSE default
Put(r, key, v) == [f \in (DOMAIN r) \cup {key} |-> IF f = key THEN v ELSE r[f]]

(* str(v) inside an f-string, for the values that occur in keys *)
Fmt(v) == IF v.t = "str" THEN v.s ELSE IF v.t = "null" THEN "None" ELSE "?"

Today == "2026-01-01"
FreshUuid == "uuid4"
PdfFilename == "gazette.pdf"

(***************************************************************************)
(* Extracted texts.  raw is len(text), n is len(text.strip()), q is the    *)
(* six-component quality sum of the text, src names the producer.          *)
(***************************************************************************)
Methods == <<"pdfplumber", "PyMuPDF", "PyPDF2">>
MethodNames == Range(Methods)
Text(src, raw, n, q) == [q |-> q, src |-> src, raw |-> raw, n |-> n]
NoText == Text("none", 0, 0, 0)
NoResults == [m \in {} |-> NoText]
NoOutputs == [m \in {} |-> NoText]

EmptyText(src) == Text(src, 0, 0, 0)

(* What one text-layer method does: it raises inside (k = "raise"), or it
   hands back a stripped text (k = "text"): "", a text of 49 or of exactly
   50 characters, or a longer one. *)
Outcome(k, text) == [k |-> k, text |-> text]

MethodOutcomesDetail(m) ==
    {Outcome("raise", EmptyText(m)), Outcome("text", EmptyText(m)),
     Outcome("text", Text(m, MinMethodLen - 1, MinMethodLen - 1, LowQuality)),
     Outcome("text", Text(m, MinMethodLen, MinMethodLen, LowQuality))}
    \cup {Outcome("text", Text(m, MinMethodLen + 1, MinMethodLen + 1, q)) :
            q \in {LowQuality - 1, LowQuality}}

MethodOutcomesFew(m) ==
    {Outcome("raise", EmptyText(m)),
     Outcome("text", Text(m, MinMethodLen + 1, MinMethodLen + 1, LowQuality - 1)),
     Outcome("text", Text(m, MinMethodLen + 1, MinMethodLen + 1, LowQuality))}

(* What the OCR collaborator does when asked: it raises, returns None,
   returns a path with no file behind it, a file that cannot be read, or a
   file holding a text. *)
OcrTexts ==
    {EmptyText("ocr"), Text("ocr", MinTextLen - 1, MinTextLen - 1, 0)}
    \cup {Text("ocr", 60, 60, q) : q \in {LowQuality + OcrMargin - 1, LowQuality + OcrMargin,
                                          LowQuality + OcrMargin + 1}}

OcrOutcomesDetail ==
    {Outcome(x, EmptyText("ocr")) : x \in {"raise", "none", "nofile", "unreadable"}}
    \cup {Outcome("text", t) : t \in OcrTexts}

OcrOutcomesFew ==
    {Outcome("raise", EmptyText("ocr")),
     Outcome("text", Text("ocr", MinTextLen - 1, MinTextLen - 1, 0)),
     Outcome("text", Text("ocr", 60, 60, LowQuality + OcrMargin))}

NoOcr == Outcome("none", EmptyText("ocr"))

(* _calculate_quality_score, seen from extract_text: 0 for a text of under
   10 characters, else the text's component sum capped at 100 *)
calculate_quality_score(text) ==
    IF text.raw = 0 \/ text.n < MinScoredLen THEN 0
    ELSE IF text.q > 100 THEN 100 ELSE text.q

(***************************************************************************)
(* PDFTextExtractor._calculate_quality_score in full.  A text is given by  *)
(* what the function reads of it: raw = len(text), n = len(text.strip()),  *)
(* chars = the number of distinct lower-cased characters, words = the      *)
(* lengths of the regex's words, tab = a "|" or a tab occurs, sentences =  *)
(* the stripped lengths of the pieces of re.split, lines = the stripped    *)
(* lengths of the non-empty lines.  Scores are exact fractions num / den   *)
(* with den > 0.                                                           *)
(***************************************************************************)
Abs(k) == IF k < 0 THEN 0 - k ELSE k
NonNeg(k) == IF k < 0 THEN 0 ELSE k

RECURSIVE Gcd(_, _)
Gcd(a, b) == IF b = 0 THEN a ELSE Gcd(b, a % b)

(* a / b in lowest terms, b > 0 *)
Frac(a, b) == LET g == Gcd(Abs(a), b) IN [num |-> a \div g, den |-> b \div g]
FracAdd(x, y) == Frac(x.num * y.den + y.num * x.den, x.den * y.den)
FracLeq(x, y) == x.num * y.den <= y.num * x.den
Whole(k) == [num |-> k, den |-> 1]

RECURSIVE SumSeq(_)
SumSeq(q) == IF q = <<>> THEN 0 ELSE q[1] + SumSeq(Tail(q))

CountIn(q, lo, hi) == Cardinality({i \in DOMAIN q : lo <= q[i] /\ q[i] <= hi})

DiversityFull == 50
MinWordLen == 2
MaxWordLen == 15
MinSentenceLen == 10
MaxSentenceLen == 200
TabularBonus == 8
ScoreCap == 100

(* lines 69-71: min(unique_chars / 50, 1.0) * 20 *)
char_diversity_score(t) ==
    Frac(2 * (IF t.chars < DiversityFull THEN t.chars ELSE DiversityFull), 5)

(* word_len_score_part without the max(..., 0) of line 79 *)
word_len_score_part_unclamped(t) ==
    IF t.words = <<>> THEN Whole(0)
    ELSE LET w == Len(t.words)
             total == SumSeq(t.words)
         IN Frac(60 * w - 3 * Abs(2 * total - 11 * w), 4 * w)

(* lines 76-79: max(1.0 - abs(avg_word_len - 5.5) / 10, 0) * 15, which is
   max(60 w - 3 |2 total - 11 w|, 0) / (4 w) over w words of total length *)
word_len_score_part(t) ==
    IF t.words = <<>> THEN Whole(0)
    ELSE LET w == Len(t.words)
             total == SumSeq(t.words)
         IN Frac(NonNeg(60 * w - 3 * Abs(2 * total - 11 * w)), 4 * w)

(* lines 81-83: valid_words / len(words) * 20 *)
word_validity_score(t) ==
    IF t.words = <<>> THEN Whole(0)
    ELSE Frac(20 * CountIn(t.words, MinWordLen, MaxWordLen), Len(t.words))

(* lines 86-87 *)
structure_score(t) == Whole(IF t.tab THEN TabularBonus ELSE 0)

(* lines 90-94: re.split always yields at least one piece *)
sentence_score(t) ==
    IF t.sentences = <<>> THEN Whole(0)
    ELSE Frac(12 * CountIn(t.sentences, MinSentenceLen, MaxSentenceLen), Len(t.sentences))

(* lines 97-102: max(1.0 - abs(avg_line_len - 50) / 100, 0) * 15, which is
   max(300 m - 3 |total - 50 m|, 0) / (20 m) over m lines of total length *)
line_score_part(t) ==
    IF t.lines = <<>> THEN Whole(0)
    ELSE LET m == Len(t.lines)
             total == SumSeq(t.lines)
         IN Frac(NonNeg(300 * m - 3 * Abs(total - 50 * m)), 20 * m)

(* lines 65-102: the sum of the six parts *)
quality_sum(t) ==
    FracAdd(char_diversity_score(t),
    FracAdd(word_len_score_part(t),
    FracAdd(word_validity_score(t),
    FracAdd(structure_score(t),
    FracAdd(sentence_score(t), line_score_part(t))))))

(* quality_score_of without the test of lines 62-63 on the stripped length:
   only the empty text scores 0 unseen *)
quality_score_of_unguarded(t) ==
    IF t.raw = 0 THEN Whole(0)
    ELSE LET total == quality_sum(t)
         IN IF FracLeq(Whole(ScoreCap), total) THEN Whole(ScoreCap) ELSE total

(* _calculate_quality_score, lines 60-104 *)
quality_score_of(t) ==
    IF t.raw = 0 \/ t.n < MinScoredLen THEN Whole(0)
    ELSE LET total == quality_sum(t)
         IN IF FracLeq(Whole(ScoreCap), total) THEN Whole(ScoreCap) ELSE total

(* The texts that are scored.  Each is one that can be written down: the
   lines make up the text, the words and the sentence pieces fit into it. *)
Sample(raw, chars, words, tab, sentences, lines) ==
    [raw |-> raw, n |-> SumSeq(lines) + (IF lines = <<>> THEN 0 ELSE Len(lines) - 1),
     chars |-> chars, words |-> words, tab |-> tab, sentences |-> sentences, lines |-> lines]

SeqsUpTo2(S) == {<<>>} \cup {<<a>> : a \in S} \cup {<<a, b>> : a \in S, b \in S}

Samples ==
    {Sample(0, 0, <<>>, FALSE, <<0>>, <<>>), Sample(3, 0, <<>>, FALSE, <<0>>, <<>>)}
    \cup
    {t \in {Sample(SumSeq(ls) + Len(ls) - 1 + pad, c, ws, tb, ss, ls) :
              pad \in {0, 2}, c \in {1, 9, 50, 60}, ws \in SeqsUpTo2({1, 5, 16, 40}),
              tb \in BOOLEAN, ss \in SeqsUpTo2({9, 10, 201}) \ {<<>>},
              ls \in SeqsUpTo2({9, 50, 400}) \ {<<>>}} :
        /\ t.chars <= t.n
        /\ SumSeq(t.words) + Len(t.words) <= t.n + 1
        /\ SumSeq(t.sentences) + Len(t.sentences) <= t.n + 1
        /\ t.tab \/ Len(t.words) > 1 \/ Len(t.sentences) > 1 \/ Len(t.lines) > 1 =>
              t.chars >= 2}

(* before the function is called: no text, no score *)
NoSample == <<>>
NoScore == <<>>

(* extract_with_pdfplumber / _pymupdf / _pypdf2: an exception inside is
   logged and "" is returned; aborted = TRUE would be the exception
   leaving the method and the loop's own try *)
run_method(m, outcome) ==
    [text |-> IF outcome.k = "raise" THEN EmptyText(m) ELSE outcome.text,
     aborted |-> FALSE]

(* surviving_results without the length test of line 128: every non-empty
   text is scored and kept *)
surviving_results_unfiltered(texts) ==
    [m \in {x \in MethodNames : texts[x].raw > 0} |->
        [text |-> texts[m], quality_score |-> calculate_quality_score(texts[m])]]

(* the loop over the three methods: the results that pass the length filter *)
surviving_results(texts) ==
    [m \in {x \in MethodNames : texts[x].raw > 0 /\ texts[x].n > MinMethodLen} |->
        [text |-> texts[m], quality_score |-> calculate_quality_score(texts[m])]]

Pos(m) == CHOOSE i \in DOMAIN Methods : Methods[i] = m

(* best_method taking the first surviving method, whatever its quality *)
best_method_first_survivor(res) ==
    CHOOSE m \in DOMAIN res : \A o \in DOMAIN res : Pos(m) <= Pos(o)

(* best_method taking, among the survivors of the highest quality, the one
   tried last *)
best_method_last_of_ties(res) ==
    CHOOSE m \in DOMAIN res :
        /\ \A o \in DOMAIN res : res[o].quality_score <= res[m].quality_score
        /\ \A o \in DOMAIN res :
              res[o].quality_score = res[m].quality_score => Pos(o) <= Pos(m)

(* max(results.keys(), key=quality): the first key, in insertion order,
   among those of the highest quality *)
best_method(res) ==
    CHOOSE m \in DOMAIN res :
        /\ \A o \in DOMAIN res : res[o].quality_score <= res[m].quality_score
        /\ \A o \in DOMAIN res :
              res[o].quality_score = res[m].quality_score => Pos(m) <= Pos(o)

(* ocr_read with the try of lines 148-171 left out: the collaborator's
   exception leaves extract_text *)
ocr_read_unguarded(oc) ==
    [text |-> IF oc.k = "text" THEN oc.text ELSE EmptyText("ocr"),
     raised |-> oc.k = "raise"]

(* the call of ocr_extract and the reading of its file, inside the try of
   lines 148-171 (177-192): the text read, "" when there is none;
   raised = TRUE would be an exception leaving that try *)
ocr_read(oc) ==
    [text |-> IF oc.k = "text" THEN oc.text ELSE EmptyText("ocr"),
     raised |-> FALSE]

(* the file ocr_extract wrote, when the try of lines 148-171 (177-192) is
   left: "none" if no path came back, "missing" if no file is behind the
   path, "removed" after os.remove (lines 156, 184), which comes after the
   read, "on_disk" if the read raised and the handler was entered *)
ocr_file_after(oc) ==
    IF oc.k = "text" THEN "removed"
    ELSE IF oc.k = "unreadable" THEN "on_disk"
    ELSE IF oc.k = "nofile" THEN "missing"
    ELSE "none"

(* ocr_backup_choice with >= for > at line 166 *)
ocr_backup_choice_at_margin(best_text, best_quality, ocr_text) ==
    IF ocr_text.raw > 0 /\ calculate_quality_score(ocr_text) >= best_quality + OcrMargin
    THEN ocr_text
    ELSE best_text

(* lines 161-168 and 173: OCR replaces the best text only if much better *)
ocr_backup_choice(best_text, best_quality, ocr_text) ==
    IF ocr_text.raw > 0 /\ calculate_quality_score(ocr_text) > best_quality + OcrMargin
    THEN ocr_text
    ELSE best_text

(* extract_text, lines 116-194, for the outcomes outs of the three methods
   and the OCR collaborator's answer oc (used only if OCR is called):
   exc = "" and the text returned, or the exception raised *)
Returned(text, res, calls) == [text |-> text, exc |-> "", results |-> res, ocr_calls |-> calls]
Raised(exc, res, calls) == [text |-> NoText, exc |-> exc, results |-> res, ocr_calls |-> calls]

(* extract_text with <= for < at line 146 *)
extract_text_ocr_up_to_threshold(outs, oc) ==
    LET ran == [m \in MethodNames |-> run_method(m, outs[m])]
        res == surviving_results([m \in MethodNames |-> ran[m].text])
        o == ocr_read(oc)
    IN IF \E m \in MethodNames : ran[m].aborted
       THEN Raised("MethodError", NoResults, 0)
       ELSE IF res # NoResults
       THEN LET best == res[best_method(res)]
            IN IF best.quality_score <= LowQuality
               THEN IF o.raised
                    THEN Raised("OcrError", res, 1)
                    ELSE Returned(ocr_backup_choice(best.text, best.quality_score, o.text),
                                  res, 1)
               ELSE Returned(best.text, res, 0)
       ELSE IF o.raised THEN Raised("OcrError", res, 1)
       ELSE IF o.text.raw > 0 THEN Returned(o.text, res, 1)
       ELSE Raised("AllMethodsFailed", res, 1)

extract_text(outs, oc) ==
    LET ran == [m \in MethodNames |-> run_method(m, outs[m])]
        res == surviving_results([m \in MethodNames |-> ran[m].text])
        o == ocr_read(oc)
    IN IF \E m \in MethodNames : ran[m].aborted
       THEN Raised("MethodError", NoResults, 0)
       ELSE IF res # NoResults
       THEN LET best == res[best_method(res)]
            IN IF best.quality_score < LowQuality
               THEN IF o.raised
                    THEN Raised("OcrError", res, 1)
                    ELSE Returned(ocr_backup_choice(best.text, best.quality_score, o.text),
                                  res, 1)
               ELSE Returned(best.text, res, 0)
       ELSE IF o.raised THEN Raised("OcrError", res, 1)
       ELSE IF o.text.raw > 0 THEN Returned(o.text, res, 1)
       ELSE Raised("AllMethodsFailed", res, 1)

(***************************************************************************)
(* DocumentProcessor: the pure parts.                                      *)
(***************************************************************************)
TokenKeys == <<"total_tokens", "output_tokens", "input_tokens">>
Usage(u) == Map(u, TokenKeys)

IsOidDict(v) == v.t = "map" /\ "$oid" \in Range(v.l)

(* fix_output_structure without lines 313-315: impact_score is not added *)
fix_output_structure_dates_only(result) ==
    LET r1 == IF ~Has(result, "dates") THEN Put(result, "dates", EmptyMap) ELSE result
        r3 == IF ~Has(r1, "agency")
              THEN Put(r1, "agency", Get(r1, "department_name", NoneStr))
              ELSE r1
    IN IF Has(r3, "_id") /\ IsOidDict(r3["_id"])
       THEN Put(r3, "_id", Str(Fmt(Get(r3, "notice_number", Str("unknown"))) \o "_"
                               \o Fmt(Get(r3, "date_added", Str(Today)))))
       ELSE r3

fix_output_structure(result) ==
    LET r1 == IF ~Has(result, "dates") THEN Put(result, "dates", EmptyMap) ELSE result
        r2 == IF ~Has(r1, "impact_score") THEN Put(r1, "impact_score", EmptyMap) ELSE r1
        r3 == IF ~Has(r2, "agency")
              THEN Put(r2, "agency", Get(r2, "department_name", NoneStr))
              ELSE r2
    IN IF Has(r3, "_id") /\ IsOidDict(r3["_id"])
       THEN Put(r3, "_id", Str(Fmt(Get(r3, "notice_number", Str("unknown"))) \o "_"
                               \o Fmt(Get(r3, "date_added", Str(Today)))))
       ELSE r3

(***************************************************************************)
(* _extract_document_data, lines 146-169: from the completion's text to    *)
(* the parsed value.  A text is the sequence of its tokens: fence_json and *)
(* fence (three backquotes with and without the word json), the braces,    *)
(* the comma, a key with its colon and blank, the values 'x' and           *)
(* 'None' (strings, written here with ' for the double quote), null and    *)
(* None (bare words), and the white space NL (a newline) and SP (a blank). *)
(***************************************************************************)
Whitespace == {"NL", "SP"}
ObjectKeys == {"a: ", "b: "}
AfterBareNone == {",", "NL", "}"}

RECURSIVE lstrip(_)
lstrip(toks) ==
    IF toks # <<>> /\ Head(toks) \in Whitespace THEN lstrip(Tail(toks)) ELSE toks

RECURSIVE rstrip(_)
rstrip(toks) ==
    IF toks # <<>> /\ toks[Len(toks)] \in Whitespace
    THEN rstrip(SubSeq(toks, 1, Len(toks) - 1))
    ELSE toks

(* str.strip() *)
strip(toks) == rstrip(lstrip(toks))

(* lines 149-154: the code fence is cut off *)
remove_code_blocks(toks) ==
    LET c1 == IF toks # <<>> /\ Head(toks) = "fence_json" THEN Tail(toks) ELSE toks
        c2 == IF c1 # <<>> /\ Head(c1) = "fence" THEN Tail(c1) ELSE c1
    IN IF c2 # <<>> /\ c2[Len(c2)] = "fence" THEN SubSeq(c2, 1, Len(c2) - 1) ELSE c2

(* lines 156-158: the three replacements of ': None' before a comma, a
   newline and a closing brace; the word null is none of the patterns *)
replace_bare_none(toks) ==
    [i \in DOMAIN toks |->
        IF /\ toks[i] = "None"
           /\ i > 1 /\ toks[i - 1] \in ObjectKeys
           /\ i < Len(toks) /\ toks[i + 1] \in AfterBareNone
        THEN "'None'"
        ELSE toks[i]]

(* lines 146-160: the text handed to json.loads *)
clean_response(toks) == strip(replace_bare_none(remove_code_blocks(strip(toks))))

(* the JSON value a token stands for; the bare word None is no JSON *)
IsJsonValue(tok) == tok \in {"'x'", "'None'", "null"}
json_value(tok) ==
    IF tok = "'x'" THEN Str("x") ELSE IF tok = "'None'" THEN NoneStr ELSE Null

key_name(tok) == IF tok = "a: " THEN "a" ELSE "b"

(* the members of an object, between its braces: ok = FALSE is
   JSONDecodeError; a key given twice has its last value *)
RECURSIVE json_members(_)
json_members(m) ==
    IF m = <<>> THEN [ok |-> TRUE, rec |-> EmptyRec]
    ELSE IF Len(m) < 2 \/ m[1] \notin ObjectKeys \/ ~IsJsonValue(m[2])
    THEN [ok |-> FALSE, rec |-> NoRecord]
    ELSE IF Len(m) = 2
    THEN [ok |-> TRUE, rec |-> Put(EmptyRec, key_name(m[1]), json_value(m[2]))]
    ELSE IF m[3] # "," \/ Len(m) = 3
    THEN [ok |-> FALSE, rec |-> NoRecord]
    ELSE LET rest == json_members(SubSeq(m, 4, Len(m)))
         IN IF ~rest.ok THEN rest
            ELSE [ok |-> TRUE,
                  rec |-> IF Has(rest.rec, key_name(m[1])) THEN rest.rec
                          ELSE Put(rest.rec, key_name(m[1]), json_value(m[2]))]

(* json.loads of a text that is to be one object; white space between the
   tokens is skipped *)
json_loads(toks) ==
    LET t == SelectSeq(toks, LAMBDA x : x \notin Whitespace)
    IN IF Len(t) >= 2 /\ t[1] = "{" /\ t[Len(t)] = "}"
       THEN json_members(SubSeq(t, 2, Len(t) - 1))
       ELSE [ok |-> FALSE, rec |-> NoRecord]

(* The completions enumerated: an object of one or two members, each value
   a string, null or None, the last value followed at once by the brace, by
   a newline or by a blank; bare or inside one of the two fences. *)
ValueTokens == {"'x'", "null", "None"}
ObjectTexts ==
    {<<"{", "a: ", v>> \o gap \o <<"}">> :
        v \in ValueTokens, gap \in {<<>>, <<"NL">>, <<"SP">>}}
    \cup {<<"{", "NL", "a: ", v, ",", "NL", "b: ", w>> \o gap \o <<"}">> :
            v \in ValueTokens, w \in ValueTokens, gap \in {<<>>, <<"NL">>, <<"SP">>}}
    \cup {<<"{", "a: ", v, "NL", "b: ", w, "}">> : v \in ValueTokens, w \in ValueTokens}

Fenced(fence, body) ==
    IF fence = "" THEN body ELSE <<fence, "NL">> \o body \o <<"NL", "fence">>

ReplyTexts == {Fenced(f, b) \o tail : f \in {"", "fence_json", "fence"}, b \in ObjectTexts,
                                      tail \in {<<>>, <<"NL">>}}

(* An LLM reply to the extraction request, after the fence and None repairs:
   k = "raise"    the call raised
   k = "badjson"  json.loads raised
   k = "scalar"   the reply parsed to a string, a number or null
   k = "array"    the reply parsed to a list, elems its elements
   k = "object"   the reply parsed to an object, elems = <<it>>
   An element that is no object is NoRecord.  usage names the call's counters. *)
Reply(k, elems, usage) == [k |-> k, elems |-> elems, usage |-> usage]

(* what the extraction reply is, seen from outside: "raise", "badjson",
   "scalar", "empty_array", "nonrecord_array" (first element no object), or
   "record" (an object, or an array whose first element is one) *)
reply_class(reply) ==
    IF reply.k \in {"raise", "badjson", "scalar"} THEN reply.k
    ELSE IF reply.elems = <<>> THEN "empty_array"
    ELSE IF reply.elems[1] = NoRecord THEN "nonrecord_array"
    ELSE "record"

(* len(parsed_response) when the reply parsed to a list (line 172), else 0 *)
array_len(reply) == IF reply.k = "array" THEN Len(reply.elems) ELSE 0

(* lines 169-176: the record taken from the parsed reply, as the LLM gave
   it; NoRecord if there is none *)
parsed_record(reply) == IF reply_class(reply) = "record" THEN reply.elems[1] ELSE NoRecord

(* extract_document_data taking whatever parses as the record: an empty
   array passes as a record with no field *)
extract_document_data_lenient(reply) ==
    IF reply.k \in {"raise", "badjson", "scalar"}
    THEN [ok |-> FALSE, rec |-> NoRecord]
    ELSE LET ai_extracted_data == IF reply.elems = <<>> \/ reply.elems[1] = NoRecord
                                  THEN EmptyRec ELSE reply.elems[1]
         IN [ok |-> TRUE,
             rec |-> Put(fix_output_structure(ai_extracted_data),
                         "total_token_usage", Usage(reply.usage))]

(* extract_document_data taking the last element of an array for the first *)
extract_document_data_last_element(reply) ==
    IF reply.k \in {"raise", "badjson", "scalar"} \/ reply.elems = <<>>
    THEN [ok |-> FALSE, rec |-> NoRecord]
    ELSE LET ai_extracted_data == reply.elems[Len(reply.elems)]
         IN IF ai_extracted_data = NoRecord
            THEN [ok |-> FALSE, rec |-> NoRecord]
            ELSE [ok |-> TRUE,
                  rec |-> Put(fix_output_structure(ai_extracted_data),
                              "total_token_usage", Usage(reply.usage))]

(* _extract_document_data, lines 126-198: ok = FALSE when it raises.  A
   reply that parses to no object fails in _fix_output_structure or at
   line 183, inside the outer try, which raises again. *)
extract_document_data(reply) ==
    IF reply.k \in {"raise", "badjson", "scalar"} \/ reply.elems = <<>>
    THEN [ok |-> FALSE, rec |-> NoRecord]
    ELSE LET ai_extracted_data == reply.elems[1]
         IN IF ai_extracted_data = NoRecord
            THEN [ok |-> FALSE, rec |-> NoRecord]
            ELSE [ok |-> TRUE,
                  rec |-> Put(fix_output_structure(ai_extracted_data),
                              "total_token_usage", Usage(reply.usage))]

(* A validation reply: k as above ("nonobject" for a list or a scalar),
   all_correct in "true", "false", "null", "absent" (no such key). *)
ValidationReplies ==
    {[k |-> x, all_correct |-> "absent"] : x \in {"raise", "badjson", "nonobject"}}
    \cup {[k |-> "object", all_correct |-> a] : a \in {"true", "false", "null", "absent"}}

(* _validate_extraction, lines 378-413: the validation_result it returns.
   Whatever goes wrong inside the try, the reply being no object included
   (line 408 then raises), gives {"all_correct": True}; raised = TRUE would
   be an exception leaving the method. *)
validate_extraction(reply) ==
    [raised |-> FALSE,
     reply |-> reply.k,
     all_correct |-> IF reply.k = "object" THEN reply.all_correct ELSE "true"]

(* validation_passes without the default of .get: a reply with no
   all_correct key does not pass *)
validation_passes_no_default(v) == v.all_correct = "true"

(* validation_result.get("all_correct", True) as a condition *)
validation_passes(v) == v.all_correct \in {"true", "absent"}

(* improved_record that lays the reply over the stage-1 record: a field
   the reply omits keeps its stage-1 value *)
improved_record_merged(initial, rec) ==
    LET r1 == [key \in (DOMAIN initial) \cup (DOMAIN rec) |->
                  IF key \in DOMAIN rec /\ key # "total_token_usage" THEN rec[key]
                  ELSE initial[key]]
        r2 == fix_output_structure(r1)
        r3 == IF ~Has(r2, "unique_id") THEN Put(r2, "unique_id", Str(FreshUuid)) ELSE r2
    IN IF ~Has(r3, "date_added") THEN Put(r3, "date_added", Str(Today)) ELSE r3

(* improved_record without lines 481-483: the counters of stage 1 are not
   carried over *)
improved_record_usage_of_reply(initial, rec) ==
    LET r2 == fix_output_structure(rec)
        r3 == IF ~Has(r2, "unique_id") THEN Put(r2, "unique_id", Str(FreshUuid)) ELSE r2
    IN IF ~Has(r3, "date_added") THEN Put(r3, "date_added", Str(Today)) ELSE r3

(* _improve_extraction, lines 418-498: the record it returns.  The whole
   body is inside one try whose handler returns initial_result; a reply
   that is no object fails at line 482.  raised = TRUE would be an exception
   leaving the method. *)
improved_record(initial, rec) ==
    LET r1 == IF Has(initial, "total_token_usage")
              THEN Put(rec, "total_token_usage", initial["total_token_usage"])
              ELSE rec
        r2 == fix_output_structure(r1)
        r3 == IF ~Has(r2, "unique_id") THEN Put(r2, "unique_id", Str(FreshUuid)) ELSE r2
    IN IF ~Has(r3, "date_added") THEN Put(r3, "date_added", Str(Today)) ELSE r3

(* improve_extraction whose handler catches parse errors only: an exception
   of the call itself, or the TypeError of line 482, leaves the method *)
improve_extraction_narrow_except(initial, reply) ==
    [raised |-> reply.k \in {"raise", "nonobject"},
     rec |-> IF reply.k = "object" THEN improved_record(initial, reply.rec) ELSE initial]

improve_extraction(initial, reply) ==
    [raised |-> FALSE,
     rec |-> IF reply.k = "object" THEN improved_record(initial, reply.rec) ELSE initial]

(* get_grouped_themes of the theme taxonomy: a mapping over the themes *)
get_grouped_themes(themes) == Map("grouped", themes.l)

(* "None" in x, by the type of x; ok = FALSE is Python's TypeError *)
contains_none(x) ==
    IF x.t = "list" THEN [v |-> "None" \in Range(x.l), ok |-> TRUE]
    ELSE IF x.t = "str" THEN [v |-> x.s = "None", ok |-> TRUE]
    ELSE IF x.t = "map" THEN [v |-> "None" \in Range(x.l), ok |-> TRUE]
    ELSE [v |-> FALSE, ok |-> FALSE]

PutAll(r, kvs) ==
    [f \in (DOMAIN r) \cup {kv[1] : kv \in kvs} |->
        IF \E kv \in kvs : kv[1] = f THEN (CHOOSE kv \in kvs : kv[1] = f)[2] ELSE r[f]]

(* process_document, lines 77-92: the system fields *)
system_fields(final) ==
    LET r1 == PutAll(final, {
                <<"unique_id", Str(FreshUuid)>>,
                <<"document_type", Str("Government Gazette")>>,
                <<"jurisdiction", Str("United Arab Emirates")>>,
                <<"iso_country_code", Str("AE")>>,
                <<"state", Str("Federal")>>,
                <<"file_path", Str(PdfFilename)>>,
                <<"date_added", Str(Today)>>,
                <<"language", Str("English")>>})
    IN Put(r1, "_id", Str(Fmt(Get(r1, "notice_number", Str("unknown"))) \o "_" \o Today))

(* process_document, lines 94-98: the theme sentinel and the grouping *)
theme_fields(final) ==
    LET c == contains_none(Get(final, "phi_themes", List(<<>>)))
        r1 == IF c.v THEN Put(final, "phi_themes", List(<<>>)) ELSE final
    IN [ok |-> c.ok,
        rec |-> IF c.ok
                THEN Put(r1, "phi_theme_categorized",
                         get_grouped_themes(Get(r1, "phi_themes", List(<<>>))))
                ELSE final]

(* date_cross_fill without the elif of lines 114-119: notice_date is never
   filled from document_date *)
date_cross_fill_one_way(final) ==
    IF Get(final, "document_date", Null) = NoneStr /\ Get(final, "notice_date", Null) # NoneStr
    THEN IF Has(final, "notice_date")
         THEN [ok |-> TRUE, rec |-> Put(final, "document_date", final["notice_date"])]
         ELSE [ok |-> FALSE, rec |-> final]
    ELSE [ok |-> TRUE, rec |-> final]

(* process_document, lines 107-119: the date cross-fill; ok = FALSE is the
   KeyError of reading a key the record does not have *)
date_cross_fill(final) ==
    IF Get(final, "document_date", Null) = NoneStr /\ Get(final, "notice_date", Null) # NoneStr
    THEN IF Has(final, "notice_date")
         THEN [ok |-> TRUE, rec |-> Put(final, "document_date", final["notice_date"])]
         ELSE [ok |-> FALSE, rec |-> final]
    ELSE IF Get(final, "notice_date", Null) = NoneStr /\ Get(final, "document_date", Null) # NoneStr
    THEN IF Has(final, "document_date")
         THEN [ok |-> TRUE, rec |-> Put(final, "notice_date", final["document_date"])]
         ELSE [ok |-> FALSE, rec |-> final]
    ELSE [ok |-> TRUE, rec |-> final]

(* process_document, lines 100-105: the blob name *)
blob_fields(final) ==
    Put(final, "blob_name", Str("documents/" \o Today \o "/" \o PdfFilename))

(***************************************************************************)
(* The replies of the LLM collaborator that are enumerated.                *)
(***************************************************************************)
Absent == [t |-> "absent", s |-> "", l |-> <<>>]
Rec(f) == [key \in {x \in DOMAIN f : f[x] # Absent} |-> f[key]]

D1 == Str("2024-03-01")
D2 == Str("2024-04-15")

(* for the whole workflow: few records, the dates present, "None" or omitted *)
Stage1Records ==
    {Rec([notice_number |-> Str("N-1"), document_date |-> dd, notice_date |-> nd]) :
        dd \in {NoneStr, D2}, nd \in {Absent, NoneStr, D1}}

ImproveRecords ==
    {Rec([notice_number |-> Str("N-1"), document_date |-> D2, notice_date |-> nd,
          total_token_usage |-> tu]) :
        nd \in {D1}, tu \in {Absent, Usage("u9")}}

(* for one document alone: every field of interest present or omitted *)
Stage1RecordsDoc ==
    {Rec([notice_number |-> Str("N-1"), document_date |-> dd, notice_date |-> nd,
          department_name |-> dn, phi_themes |-> th, dates |-> ds, impact_score |-> ds]) :
        dd \in {Absent, NoneStr, D2}, nd \in {Absent, NoneStr, D1},
        dn \in {Absent, Str("DOH")},
        th \in {Absent, List(<<"Healthcare">>), List(<<"Healthcare", "None">>)},
        ds \in {Absent, NoneStr, Map("filled", <<"enforcement_date">>)}}

ImproveRecordsDoc ==
    {Rec([notice_number |-> Str("N-2"), document_date |-> dd, notice_date |-> nd,
          total_token_usage |-> tu, phi_themes |-> th, dates |-> ds, unique_id |-> uid]) :
        dd \in {Absent, NoneStr}, nd \in {Absent, D1},
        th \in {Absent, List(<<"None">>)}, ds \in {Absent, NoneStr},
        tu \in {Absent, Usage("u9")}, uid \in {Absent, Str("uuid-llm")}}

(* a further notice of a reply that is an array of notices *)
LaterNotice ==
    Rec([notice_number |-> Str("N-9"), document_date |-> D1, notice_date |-> D1,
         department_name |-> Str("MOF"), phi_themes |-> List(<<"Finance">>)])

Stage1RepliesOver(Recs) ==
    {Reply(x, <<>>, "u1") : x \in {"raise", "badjson", "scalar", "array"}}
    \cup {Reply("array", <<NoRecord>>, "u1")}
    \cup {Reply("object", <<r>>, "u1") : r \in Recs}
    \cup {Reply("array", <<r, LaterNotice>>, "u1") : r \in {x \in Recs : ~Has(x, "notice_date")}}
    \cup {Reply("array", a, "u1") :
            a \in UNION {{<<r>>, <<r, LaterNotice, LaterNotice>>} :
                            r \in {x \in Recs : ~Has(x, "notice_date")
                                                  /\ Has(x, "department_name")}}}

ImproveRepliesOver(Recs) ==
    {[k |-> x, rec |-> NoRecord] : x \in {"raise", "badjson", "nonobject"}}
    \cup {[k |-> "object", rec |-> r] : r \in Recs}

VARIABLES
    pc, feedLen, idx, processed_count, skipped_count, failed_count, log,
    pending, temp_file, downloaded, cleanup_called,
    outputs, results, ocr, ocr_calls, extracted_text, md_file,
    llm_calls, stage1, initial_result, validation, improvement, final_result, data,
    reply_record,
    artifact, attempts, cursor,
    sample, score,
    response_content, parsed_response

wfVars == <<feedLen, idx, processed_count, skipped_count, failed_count, log>>
fileVars == <<temp_file, downloaded, cleanup_called>>
pipeVars == <<outputs, results, ocr, ocr_calls, extracted_text, md_file>>
docVars == <<llm_calls, stage1, initial_result, validation, improvement, final_result, data,
            reply_record>>
saveVars == <<artifact, attempts, cursor>>
scoreVars == <<sample, score>>
parseVars == <<response_content, parsed_response>>
vars == <<pc, pending, wfVars, fileVars, pipeVars, docVars, saveVars, scoreVars, parseVars>>

(* before json.loads is called *)
NoParse == [ok |-> FALSE, rec |-> NoRecord]
NoValidation == [raised |-> FALSE, reply |-> "none", all_correct |-> "absent"]
NoStage1 == [ok |-> FALSE, elems |-> 0, reply |-> "none"]

(* the locals of one pass of the loop of extract_gazette_from_rss, and of the
   calls made in it, as they are before the item is handled *)
ItemReset ==
    /\ pending' = ""
    /\ temp_file' = "none"
    /\ downloaded' = FALSE
    /\ cleanup_called' = FALSE
    /\ outputs' = NoOutputs
    /\ results' = NoResults
    /\ ocr' = NoOcr
    /\ ocr_calls' = 0
    /\ extracted_text' = NoText
    /\ md_file' = "none"
    /\ llm_calls' = <<>>
    /\ stage1' = NoStage1
    /\ initial_result' = NoRecord
    /\ validation' = NoValidation
    /\ improvement' = "none"
    /\ final_result' = NoRecord
    /\ data' = <<>>
    /\ reply_record' = NoRecord
    /\ artifact' = FALSE
    /\ attempts' = <<>>
    /\ cursor' = 0

Init ==
    /\ pc = "start"
    /\ feedLen = 0
    /\ idx = 0
    /\ processed_count = 0
    /\ skipped_count = 0
    /\ failed_count = 0
    /\ log = <<>>
    /\ pending = ""
    /\ temp_file = "none"
    /\ downloaded = FALSE
    /\ cleanup_called = FALSE
    /\ outputs = NoOutputs
    /\ results = NoResults
    /\ ocr = NoOcr
    /\ ocr_calls = 0
    /\ extracted_text = NoText
    /\ md_file = "none"
    /\ llm_calls = <<>>
    /\ stage1 = NoStage1
    /\ initial_result = NoRecord
    /\ validation = NoValidation
    /\ improvement = "none"
    /\ final_result = NoRecord
    /\ data = <<>>
    /\ reply_record = NoRecord
    /\ artifact = FALSE
    /\ attempts = <<>>
    /\ cursor = 0
    /\ sample = NoSample
    /\ score = NoScore
    /\ response_content = <<>>
    /\ parsed_response = NoParse

(***************************************************************************)
(* GazetteRSSProcessor.extract_gazette_from_rss                            *)
(***************************************************************************)

(* RaiseInItem without the finally clause of lines 145-147: the handler of
   the outer try counts the item and the loop goes on *)
RaiseSkippingFinally(exc) ==
    /\ pending' = exc
    /\ pc' = "item_done"

(* an exception raised inside the inner try (lines 125-147): the finally
   clause runs next, then the handler of the outer try *)
RaiseInItem(exc) ==
    /\ pending' = exc
    /\ pc' = "cleanup"

(* lines 86-105: themes are loaded (or defaulted), the links are fetched;
   an empty list ends the run *)
StartRun ==
    /\ pc = "start"
    /\ \E n \in 0..MaxFeed :
          /\ feedLen' = n
          /\ idx' = IF n = 0 THEN 0 ELSE 1
          /\ pc' = IF n = 0 THEN "done" ELSE "dedupe"
    /\ UNCHANGED <<scoreVars, parseVars, processed_count, skipped_count, failed_count, log, pending,
                   fileVars, pipeVars, docVars, saveVars>>

(* CheckAlreadyProcessed without the continue of line 114: a duplicate is
   counted as skipped and handled all the same *)
CheckAlreadyProcessed_no_continue ==
    /\ pc = "dedupe"
    /\ \E r \in {"duplicate", "new", "raise"} :
          /\ skipped_count' = IF r = "duplicate" THEN skipped_count + 1 ELSE skipped_count
          /\ failed_count' = IF r = "raise" THEN failed_count + 1 ELSE failed_count
          /\ log' = IF r = "duplicate" THEN Append(log, "duplicate")
                    ELSE IF r = "raise" THEN Append(log, "error") ELSE log
          /\ pc' = IF r = "raise" THEN "item_done" ELSE "download"
    /\ UNCHANGED <<scoreVars, parseVars, feedLen, idx, processed_count, pending,
                   fileVars, pipeVars, docVars, saveVars>>

(* lines 111-114, and 149-152 when the dedupe collaborator raises *)
CheckAlreadyProcessed ==
    /\ pc = "dedupe"
    /\ \E r \in {"duplicate", "new", "raise"} :
          /\ skipped_count' = IF r = "duplicate" THEN skipped_count + 1 ELSE skipped_count
          /\ failed_count' = IF r = "raise" THEN failed_count + 1 ELSE failed_count
          /\ log' = IF r = "duplicate" THEN Append(log, "duplicate")
                    ELSE IF r = "raise" THEN Append(log, "error") ELSE log
          /\ pc' = IF r = "new" THEN "download" ELSE "item_done"
    /\ UNCHANGED <<scoreVars, parseVars, feedLen, idx, processed_count, pending,
                   fileVars, pipeVars, docVars, saveVars>>

(* DownloadPdf without line 122: a download that returns None is logged
   and the loop goes on, the item uncounted *)
DownloadPdf_uncounted ==
    /\ pc = "download"
    /\ \E r \in {"path", "none", "raise"} :
          /\ temp_file' = IF r = "path" THEN "on_disk" ELSE temp_file
          /\ downloaded' = (r = "path")
          /\ failed_count' = IF r = "raise" THEN failed_count + 1 ELSE failed_count
          /\ log' = IF r = "path" THEN log ELSE Append(log, "download_failed")
          /\ pc' = IF r = "path" THEN "extract" ELSE "item_done"
    /\ UNCHANGED <<scoreVars, parseVars, feedLen, idx, processed_count, skipped_count, pending, cleanup_called,
                   pipeVars, docVars, saveVars>>

(* lines 119-123 with RSSProcessor.download_pdf_from_url: a path, None, or
   an exception of os.makedirs, which is outside the method's try *)
DownloadPdf ==
    /\ pc = "download"
    /\ \E r \in {"path", "none", "raise"} :
          /\ temp_file' = IF r = "path" THEN "on_disk" ELSE temp_file
          /\ downloaded' = (r = "path")
          /\ failed_count' = IF r = "path" THEN failed_count ELSE failed_count + 1
          /\ log' = IF r = "path" THEN log ELSE Append(log, "download_failed")
          /\ pc' = IF r = "path" THEN "extract" ELSE "item_done"
    /\ UNCHANGED <<scoreVars, parseVars, feedLen, idx, processed_count, skipped_count, pending, cleanup_called,
                   pipeVars, docVars, saveVars>>

(***************************************************************************)
(* PDFTextExtractor.extract_text                                           *)
(***************************************************************************)

(* process_single_pdf, line 53: extract_text as a whole.  Methods gives
   the outcomes a method may have, Ocrs the answers of the OCR collaborator. *)
ExtractText(MethodOutcomes, Ocrs) ==
    /\ pc = "extract"
    /\ IF temp_file # "on_disk"
       THEN /\ RaiseInItem("FileNotFoundError")
            /\ UNCHANGED pipeVars
       ELSE \E o1 \in MethodOutcomes[Methods[1]], o2 \in MethodOutcomes[Methods[2]],
               o3 \in MethodOutcomes[Methods[3]], oc \in Ocrs :
              LET outs == [m \in MethodNames |->
                             IF m = Methods[1] THEN o1 ELSE IF m = Methods[2] THEN o2 ELSE o3]
                  got == extract_text(outs, oc)
              IN /\ outputs' = outs
                 /\ results' = got.results
                 /\ ocr' = oc
                 /\ ocr_calls' = got.ocr_calls
                 /\ extracted_text' = got.text
                 /\ md_file' = IF got.ocr_calls = 1 THEN ocr_file_after(oc) ELSE "none"
                 /\ IF got.exc = ""
                    THEN pc' = "extracted" /\ pending' = pending
                    ELSE RaiseInItem(got.exc)
    /\ UNCHANGED <<scoreVars, parseVars, wfVars, fileVars, docVars, saveVars>>

(* CheckExtractedText without the test of lines 55-56: whatever text came
   back is handed to process_document *)
CheckExtractedText_any_text ==
    /\ pc = "extracted"
    /\ pc' = "stage1"
    /\ pending' = pending
    /\ outputs' = NoOutputs
    /\ results' = NoResults
    /\ ocr' = NoOcr
    /\ ocr_calls' = 0
    /\ extracted_text' = NoText
    /\ md_file' = "none"
    /\ UNCHANGED <<scoreVars, parseVars, wfVars, fileVars, docVars, saveVars>>

(* GazetteRSSProcessor.process_single_pdf, lines 55-56.  extract_text's locals
   end here; the text itself is only handed on to the LLM, whose replies do
   not depend on it in the model, and is not kept. *)
CheckExtractedText ==
    /\ pc = "extracted"
    /\ IF extracted_text.raw = 0 \/ extracted_text.n < MinTextLen
       THEN RaiseInItem("InsufficientText")
       ELSE pc' = "stage1" /\ pending' = pending
    /\ outputs' = NoOutputs
    /\ results' = NoResults
    /\ ocr' = NoOcr
    /\ ocr_calls' = 0
    /\ extracted_text' = NoText
    /\ md_file' = "none"
    /\ UNCHANGED <<scoreVars, parseVars, wfVars, fileVars, docVars, saveVars>>

(***************************************************************************)
(* DocumentProcessor.process_document                                      *)
(***************************************************************************)

(* ExtractDocumentData with the exception of stage 1 swallowed: the
   validation is asked about a record that is not there *)
ExtractDocumentData_failure_swallowed(Replies) ==
    /\ pc = "stage1"
    /\ \E reply \in Replies :
          LET got == extract_document_data(reply)
          IN /\ llm_calls' = Append(llm_calls, "extract")
             /\ stage1' = [ok |-> got.ok, elems |-> array_len(reply), reply |-> reply_class(reply)]
             /\ initial_result' = got.rec
             /\ reply_record' = parsed_record(reply)
    /\ pc' = "validate"
    /\ UNCHANGED <<scoreVars, parseVars, pending, validation, improvement, final_result, data,
                   wfVars, fileVars, pipeVars, saveVars>>

(* line 63: stage 1 *)
ExtractDocumentData(Replies) ==
    /\ pc = "stage1"
    /\ \E reply \in Replies :
          LET got == extract_document_data(reply)
          IN /\ llm_calls' = Append(llm_calls, "extract")
             /\ stage1' = [ok |-> got.ok, elems |-> array_len(reply), reply |-> reply_class(reply)]
             /\ initial_result' = got.rec
             /\ reply_record' = parsed_record(reply)
             /\ IF got.ok
                THEN pc' = "validate" /\ pending' = pending
                ELSE RaiseInItem("Stage1Failed")
    /\ UNCHANGED <<scoreVars, parseVars, validation, improvement, final_result, data,
                   wfVars, fileVars, pipeVars, saveVars>>

(* ValidateExtraction that asks again when the call raised *)
ValidateExtraction_asking_again ==
    /\ pc = "validate"
    /\ \E reply \in ValidationReplies :
          /\ llm_calls' = Append(llm_calls, "validate")
          /\ validation' = validate_extraction(reply)
          /\ pending' = pending
          /\ IF reply.k = "raise"
             THEN pc' = "validate" /\ final_result' = final_result
             ELSE IF validation_passes(validation')
             THEN pc' = "post" /\ final_result' = initial_result
             ELSE pc' = "improve" /\ final_result' = final_result
    /\ UNCHANGED <<scoreVars, parseVars, stage1, initial_result, improvement, data, reply_record,
                   wfVars, fileVars, pipeVars, saveVars>>

(* lines 67-73: stage 2 and the accept branch *)
ValidateExtraction ==
    /\ pc = "validate"
    /\ \E reply \in ValidationReplies :
          /\ llm_calls' = Append(llm_calls, "validate")
          /\ validation' = validate_extraction(reply)
          /\ IF validation'.raised
             THEN RaiseInItem("ValidationError") /\ final_result' = final_result
             ELSE /\ pending' = pending
                  /\ IF validation_passes(validation')
                     THEN pc' = "post" /\ final_result' = initial_result
                     ELSE pc' = "improve" /\ final_result' = final_result
    /\ UNCHANGED <<scoreVars, parseVars, stage1, initial_result, improvement, data, reply_record,
                   wfVars, fileVars, pipeVars, saveVars>>

(* line 75: stage 3 *)
ImproveExtraction(Replies) ==
    /\ pc = "improve"
    /\ \E reply \in Replies :
          /\ llm_calls' = Append(llm_calls, "improve")
          /\ improvement' = reply.k
          /\ reply_record' = IF reply.k = "object" THEN reply.rec ELSE reply_record
          /\ LET got == improve_extraction(initial_result, reply)
             IN IF got.raised
                THEN RaiseInItem("ImprovementError") /\ final_result' = final_result
                ELSE pc' = "post" /\ pending' = pending /\ final_result' = got.rec
    /\ UNCHANGED <<scoreVars, parseVars, stage1, initial_result, validation, data,
                   wfVars, fileVars, pipeVars, saveVars>>

(* lines 77-121: the programmatic fields and the return; each \E binds the
   record as the statements before it left it *)
PostProcess ==
    /\ pc = "post"
    /\ \E sf \in {system_fields(final_result)} :
       \E th \in {theme_fields(sf)} :
       \E cf \in {date_cross_fill(blob_fields(th.rec))} :
          IF ~th.ok
          THEN data' = data /\ RaiseInItem("TypeError")
          ELSE IF ~cf.ok
          THEN data' = data /\ RaiseInItem("KeyError")
          ELSE /\ data' = <<cf.rec>>
               /\ pc' = "artifact"
               /\ pending' = pending
    /\ UNCHANGED <<scoreVars, parseVars, llm_calls, stage1, initial_result, validation, improvement, final_result,
                   reply_record, wfVars, fileVars, pipeVars, saveVars>>

(***************************************************************************)
(* The artifact, the store, the cleanup.                                   *)
(***************************************************************************)

(* WriteArtifact with a failed write only logged: the save follows *)
WriteArtifact_failure_logged ==
    /\ pc = "artifact"
    /\ \E r \in {"ok", "raise"} : artifact' = (r = "ok")
    /\ pc' = "save_open"
    /\ pending' = pending
    /\ initial_result' = NoRecord
    /\ final_result' = NoRecord
    /\ validation' = NoValidation
    /\ improvement' = "none"
    /\ reply_record' = NoRecord
    /\ UNCHANGED <<scoreVars, parseVars, llm_calls, stage1, data, attempts, cursor, wfVars, fileVars, pipeVars>>

(* extract_gazette_from_rss, lines 130-137; process_document's locals end *)
WriteArtifact ==
    /\ pc = "artifact"
    /\ \E r \in {"ok", "raise"} :
          IF r = "ok"
          THEN artifact' = TRUE /\ pc' = "save_open" /\ pending' = pending
          ELSE artifact' = artifact /\ RaiseInItem("ArtifactWriteFailed")
    /\ initial_result' = NoRecord
    /\ final_result' = NoRecord
    /\ validation' = NoValidation
    /\ improvement' = "none"
    /\ reply_record' = NoRecord
    /\ UNCHANGED <<scoreVars, parseVars, llm_calls, stage1, data, attempts, cursor, wfVars, fileVars, pipeVars>>

(* save_in_database, lines 24-27 and 41-43: the database and collection
   handles; a failure is logged and raised again *)
SaveOpen ==
    /\ pc = "save_open"
    /\ \E r \in {"ok", "raise"} :
          IF r = "ok"
          THEN pc' = "insert" /\ cursor' = 1 /\ pending' = pending
          ELSE cursor' = cursor /\ RaiseInItem("DatabaseSaveFailed")
    /\ UNCHANGED <<scoreVars, parseVars, artifact, attempts, wfVars, fileVars, pipeVars, docVars>>

(* save_in_database, lines 29-37: one pass of the loop.  A block that is no
   dict is logged; an insert that raises is logged. *)
insert_outcomes(block) == IF block = NoRecord THEN {"invalid"} ELSE {"inserted", "insert_failed"}

(* InsertOne without the try of lines 31-35: a failed insert leaves the
   loop and save_in_database *)
InsertOne_aborting ==
    /\ pc = "insert"
    /\ cursor <= Len(data)
    /\ \E r \in insert_outcomes(data[cursor]) :
          /\ attempts' = Append(attempts, r)
          /\ IF r = "insert_failed"
             THEN RaiseInItem("DatabaseSaveFailed")
             ELSE pc' = pc /\ pending' = pending
    /\ cursor' = cursor + 1
    /\ UNCHANGED <<scoreVars, parseVars, artifact, wfVars, fileVars, pipeVars, docVars>>

InsertOne ==
    /\ pc = "insert"
    /\ cursor <= Len(data)
    /\ \E r \in insert_outcomes(data[cursor]) : attempts' = Append(attempts, r)
    /\ cursor' = cursor + 1
    /\ UNCHANGED <<scoreVars, parseVars, pc, pending, artifact, wfVars, fileVars, pipeVars, docVars>>

(* save_in_database returns (line 39); extract_gazette_from_rss, lines 142-143 *)
SaveReturn ==
    /\ pc = "insert"
    /\ cursor > Len(data)
    /\ processed_count' = processed_count + 1
    /\ pc' = "cleanup"
    /\ UNCHANGED <<scoreVars, parseVars, feedLen, idx, skipped_count, failed_count, log, pending,
                   fileVars, pipeVars, docVars, saveVars>>

(* CleanupTempFile without the handler of lines 149-152: a pending
   exception leaves the loop and extract_gazette_from_rss *)
CleanupTempFile_unhandled ==
    /\ pc = "cleanup"
    /\ cleanup_called' = TRUE
    /\ \E removed \in BOOLEAN :
          temp_file' = IF temp_file # "on_disk" THEN temp_file
                       ELSE IF removed THEN "removed" ELSE "remove_failed"
    /\ failed_count' = failed_count
    /\ log' = IF pending # "" THEN log ELSE Append(log, "ok")
    /\ pc' = IF pending # "" THEN "aborted" ELSE "item_done"
    /\ UNCHANGED <<scoreVars, parseVars, feedLen, idx, processed_count, skipped_count, pending, downloaded,
                   pipeVars, docVars, saveVars>>

(* lines 145-152: the finally clause (RSSProcessor.cleanup_temp_file, whose
   os.remove may fail and is then only logged), then the outer handler *)
CleanupTempFile ==
    /\ pc = "cleanup"
    /\ cleanup_called' = TRUE
    /\ \E removed \in BOOLEAN :
          temp_file' = IF temp_file # "on_disk" THEN temp_file
                       ELSE IF removed THEN "removed" ELSE "remove_failed"
    /\ failed_count' = IF pending # "" THEN failed_count + 1 ELSE failed_count
    /\ log' = Append(log, IF pending # "" THEN "error" ELSE "ok")
    /\ pc' = "item_done"
    /\ UNCHANGED <<scoreVars, parseVars, feedLen, idx, processed_count, skipped_count, pending, downloaded,
                   pipeVars, docVars, saveVars>>

(* the for loop goes on (line 108), or the summary is logged (lines 155-160) *)
NextItem ==
    /\ pc = "item_done"
    /\ IF idx < feedLen
       THEN idx' = idx + 1 /\ pc' = "dedupe"
       ELSE idx' = idx /\ pc' = "done"
    /\ ItemReset
    /\ UNCHANGED <<scoreVars, parseVars, feedLen, processed_count, skipped_count, failed_count, log>>

Next ==
    \/ StartRun
    \/ CheckAlreadyProcessed
    \/ DownloadPdf
    \/ ExtractText([m \in MethodNames |-> MethodOutcomesFew(m)], OcrOutcomesFew)
    \/ CheckExtractedText
    \/ ExtractDocumentData(Stage1RepliesOver(Stage1Records))
    \/ ValidateExtraction
    \/ ImproveExtraction(ImproveRepliesOver(ImproveRecords))
    \/ PostProcess
    \/ WriteArtifact
    \/ SaveOpen
    \/ InsertOne
    \/ SaveReturn
    \/ CleanupTempFile
    \/ NextItem

Spec == Init /\ [][Next]_vars

(* the run under the assumption that every collaborator call returns *)
FairSpec == Spec /\ WF_vars(Next)

(***************************************************************************)
(* One document in detail.  The states below are states of Spec, reached   *)
(* by the first item of a feed; the inputs are drawn from larger sets.     *)
(***************************************************************************)
AtItem(at, temp, dl) ==
    /\ pc = at
    /\ feedLen = 1
    /\ idx = 1
    /\ processed_count = 0
    /\ skipped_count = 0
    /\ failed_count = 0
    /\ log = <<>>
    /\ pending = ""
    /\ temp_file = temp
    /\ downloaded = dl
    /\ cleanup_called = FALSE
    /\ outputs = NoOutputs
    /\ results = NoResults
    /\ ocr = NoOcr
    /\ ocr_calls = 0
    /\ extracted_text = NoText
    /\ md_file = "none"
    /\ initial_result = NoRecord
    /\ validation = NoValidation
    /\ improvement = "none"
    /\ final_result = NoRecord
    /\ reply_record = NoRecord
    /\ attempts = <<>>
    /\ cursor = 0
    /\ sample = NoSample
    /\ score = NoScore
    /\ response_content = <<>>
    /\ parsed_response = NoParse

(* extract_text on one downloaded file, then the length check *)
InitText ==
    /\ AtItem("extract", "on_disk", TRUE)
    /\ llm_calls = <<>>
    /\ stage1 = NoStage1
    /\ data = <<>>
    /\ artifact = FALSE

NextText ==
    \/ ExtractText([m \in MethodNames |-> MethodOutcomesDetail(m)], OcrOutcomesDetail)
    \/ CheckExtractedText

SpecText == InitText /\ [][NextText]_vars

(* process_document on one extracted text *)
InitDoc ==
    /\ AtItem("stage1", "on_disk", TRUE)
    /\ llm_calls = <<>>
    /\ stage1 = NoStage1
    /\ data = <<>>
    /\ artifact = FALSE

NextDoc ==
    \/ ExtractDocumentData(Stage1RepliesOver(Stage1RecordsDoc))
    \/ ValidateExtraction
    \/ ImproveExtraction(ImproveRepliesOver(ImproveRecordsDoc))
    \/ PostProcess

SpecDoc == InitDoc /\ [][NextDoc]_vars

(* save_in_database on a list of up to MaxRecords blocks, each a record or
   something that is no dict, then the end of the item.  The workflow itself
   hands over the one-record list of process_document. *)
SavedRecord ==
    date_cross_fill(blob_fields(theme_fields(system_fields(
        fix_output_structure(Rec([notice_number |-> Str("N-1")])))).rec)).rec
Blocks == {SavedRecord, NoRecord}
BlockLists == UNION {[1..n -> Blocks] : n \in 0..MaxRecords}

InitSave ==
    /\ AtItem("save_open", "on_disk", TRUE)
    /\ llm_calls = <<"extract", "validate">>
    /\ stage1 = [ok |-> TRUE, elems |-> 0, reply |-> "record"]
    /\ data \in BlockLists
    /\ artifact = TRUE

NextSave ==
    \/ SaveOpen
    \/ InsertOne
    \/ SaveReturn
    \/ CleanupTempFile
    \/ NextItem

SpecSave == InitSave /\ [][NextSave]_vars

(***************************************************************************)
(* The scorer alone: _calculate_quality_score applied to one text.         *)
(***************************************************************************)
CalculateQualityScore ==
    /\ pc = "score"
    /\ \E t \in Samples :
          /\ sample' = t
          /\ score' = quality_score_of(t)
    /\ pc' = "scored"
    /\ UNCHANGED <<parseVars, pending, wfVars, fileVars, pipeVars, docVars, saveVars>>

InitScore ==
    /\ AtItem("score", "on_disk", TRUE)
    /\ llm_calls = <<>>
    /\ stage1 = NoStage1
    /\ data = <<>>
    /\ artifact = FALSE

NextScore == CalculateQualityScore

SpecScore == InitScore /\ [][NextScore]_vars

(* _extract_document_data, lines 146-169, on one completion: the text is
   cleaned and parsed *)
ParseResponse ==
    /\ pc = "parse"
    /\ \E text \in ReplyTexts :
          /\ response_content' = text
          /\ parsed_response' = json_loads(clean_response(text))
    /\ pc' = "parsed"
    /\ UNCHANGED <<scoreVars, pending, wfVars, fileVars, pipeVars, docVars, saveVars>>

InitParse ==
    /\ AtItem("parse", "on_disk", TRUE)
    /\ llm_calls = <<>>
    /\ stage1 = NoStage1
    /\ data = <<>>
    /\ artifact = FALSE

NextParse == ParseResponse

SpecParse == InitParse /\ [][NextParse]_vars

(***************************************************************************)
(* Properties.                                                             *)
(***************************************************************************)

(* process_document raised for the current document *)
DocRaised ==
    /\ pc = "cleanup"
    /\ pending \in {"Stage1Failed", "ValidationError", "ImprovementError", "TypeError", "KeyError"}

(* process_document has just returned data *)
DocReturned == pc = "artifact"

(* the keys process_document writes after the three stages (lines 81-119) *)
PostKeys ==
    {"unique_id", "document_type", "jurisdiction", "iso_country_code", "state", "file_path",
     "date_added", "language", "_id", "phi_themes", "phi_theme_categorized", "blob_name",
     "document_date", "notice_date"}

SameOutsidePost(r, base) ==
    \A key \in (DOMAIN base) \ PostKeys : key \in DOMAIN r /\ r[key] = base[key]

(* C1: whenever stage 1 succeeded, process_document does not raise and
   returns a list holding at least one record, whatever validation and
   improvement did.  (SpecDoc) *)
C1_ReturnsWhenStage1Succeeds ==
    stage1.ok =>
        /\ ~DocRaised
        /\ DocReturned => Len(data) >= 1 /\ \A i \in DOMAIN data : data[i] # NoRecord

(* C1, the state that refutes it: stage 1 succeeded with document_date
   "None" and no notice_date, and line 112 raised KeyError *)
C1_KeyErrorAfterStage1 ==
    /\ stage1.ok
    /\ pc = "cleanup"
    /\ pending = "KeyError"
    /\ Get(initial_result, "document_date", Null) = NoneStr
    /\ ~Has(initial_result, "notice_date")

ValidationFailed == validation.reply \in {"raise", "badjson", "nonobject"}

(* C2: if the validation call raises or its reply is no JSON object, the
   outcome is all_correct = true: no improvement call is made,
   process_document does not raise, and it returns the stage-1 record.
   (SpecDoc) *)
C2_ValidationFailOpen ==
    ValidationFailed =>
        /\ validation.all_correct = "true"
        /\ "improve" \notin Range(llm_calls)
        /\ ~DocRaised
        /\ pc = "post" => final_result = initial_result
        /\ DocReturned => Len(data) = 1 /\ SameOutsidePost(data[1], initial_result)

(* C2 without "does not raise": what is left holds, the only exception
   being the KeyError of C1 *)
C2_FailOpenButForKeyError ==
    ValidationFailed =>
        /\ validation.all_correct = "true"
        /\ "improve" \notin Range(llm_calls)
        /\ DocRaised => pending = "KeyError"
        /\ pc = "post" => final_result = initial_result
        /\ DocReturned => Len(data) = 1 /\ SameOutsidePost(data[1], initial_result)

(* C2, the state that refutes it: validation failed and process_document
   raised all the same *)
C2_RaisedAfterFailedValidation ==
    /\ ValidationFailed
    /\ DocRaised
    /\ llm_calls = <<"extract", "validate">>

ImprovementFailed == improvement \in {"raise", "badjson", "nonobject"}

(* C3: if the improvement stage fails (the call raises, the reply is no
   JSON, the reply is no object), _improve_extraction does not raise and
   returns the stage-1 record, every field as stage 1 produced it.
   (SpecDoc) *)
C3_ImproveFailSoft ==
    /\ [](ImprovementFailed =>
            /\ pending # "ImprovementError"
            /\ pc \in {"post", "artifact", "cleanup"}
            /\ pc = "post" => final_result = initial_result /\ final_result # NoRecord)
    /\ [][pc = "improve" => initial_result' = initial_result]_vars

C3_FailedImprovementReturned ==
    /\ pc = "post"
    /\ improvement = "nonobject"
    /\ final_result = initial_result
    /\ Has(final_result, "total_token_usage")
    /\ Has(final_result, "notice_date")

Stage1Unparsed == stage1.reply \in {"badjson", "scalar", "empty_array", "nonrecord_array"}

(* C4: if the stage-1 reply cannot be parsed into a record, process_document
   fails: no validation and no improvement call is made, no record is
   returned or persisted, the item is counted failed and the loop goes on
   to the next item.  (Spec) *)
C4_Stage1FailureIsFatal ==
    /\ [](Stage1Unparsed =>
            /\ ~stage1.ok
            /\ llm_calls = <<"extract">>
            /\ data = <<>>
            /\ attempts = <<>>
            /\ ~artifact
            /\ pending = "Stage1Failed"
            /\ pc \in {"cleanup", "item_done"}
            /\ pc = "item_done" => Len(log) = idx /\ log[idx] = "error")
    /\ [][Stage1Unparsed /\ pc = "cleanup" =>
            /\ failed_count' = failed_count + 1
            /\ processed_count' = processed_count
            /\ skipped_count' = skipped_count
            /\ pc' = "item_done"]_vars
    /\ [][Stage1Unparsed /\ pc = "item_done" =>
            IF idx < feedLen THEN idx' = idx + 1 /\ pc' = "dedupe" ELSE pc' = "done"]_vars

C4_FailedItemThenNext ==
    /\ pc = "item_done"
    /\ stage1.reply = "empty_array"
    /\ idx < feedLen
    /\ failed_count = 1
    /\ log = <<"error">>

(* the highest quality among the surviving text-layer results *)
BestQuality ==
    CHOOSE q \in {results[m].quality_score : m \in DOMAIN results} :
        \A m \in DOMAIN results : results[m].quality_score <= q

(* the OCR collaborator's text for this file has quality q *)
OcrQualityIs(q) == ocr.k = "text" /\ ocr.text.raw > 0 /\ calculate_quality_score(ocr.text) = q

ReturnedOcr == extracted_text.src = "ocr"
ReturnedTextLayer ==
    \E m \in DOMAIN results : extracted_text = results[m].text /\ results[m].quality_score = BestQuality

ExtractReturnedOverResults == pc = "extracted" /\ results # NoResults

(* C5, as stated: extract_text returns the OCR output in place of the best
   text-layer result only when ocr_quality > best_quality + 15; with
   best_quality = 70 and ocr_quality = 84 the text-layer result is
   returned, with best_quality = 70 and ocr_quality = 86 the OCR output.
   (SpecText) *)
C5_OcrReplacesAtSeventy ==
    ExtractReturnedOverResults =>
        /\ ReturnedOcr => \E q \in 0..100 : OcrQualityIs(q) /\ q > BestQuality + 15
        /\ BestQuality = 70 /\ OcrQualityIs(84) => ReturnedTextLayer
        /\ BestQuality = 70 /\ OcrQualityIs(86) => ReturnedOcr /\ extracted_text = ocr.text

(* C5, amended: the OCR output replaces the best text-layer result only when
   best_quality < 70 and ocr_quality > best_quality + 15; with best_quality
   = 70 OCR is not called and the text-layer result is returned, be the OCR
   quality 84 or 86; with best_quality = 69, an OCR quality of 84 keeps the
   text-layer result and one of 85 or 86 returns the OCR output.
   (SpecText) *)
C5_OcrReplacesBelowSeventy ==
    ExtractReturnedOverResults =>
        /\ ReturnedOcr \/ ReturnedTextLayer
        /\ ReturnedOcr =>
              /\ BestQuality < 70
              /\ ocr_calls = 1
              /\ \E q \in 0..100 : OcrQualityIs(q) /\ q > BestQuality + 15
        /\ BestQuality = 70 => ReturnedTextLayer /\ ocr_calls = 0
        /\ BestQuality = 69 /\ OcrQualityIs(84) => ReturnedTextLayer
        /\ BestQuality = 69 /\ (OcrQualityIs(85) \/ OcrQualityIs(86)) =>
              ReturnedOcr /\ extracted_text = ocr.text

C5_OcrReplacedLowQualityText ==
    /\ ExtractReturnedOverResults
    /\ BestQuality = 69
    /\ OcrQualityIs(86)
    /\ extracted_text = ocr.text

(* a text-layer method handed back a text that passes the length filter *)
SurvivorExists ==
    \E m \in DOMAIN outputs : outputs[m].k = "text" /\ outputs[m].text.n > MinMethodLen

ExtractTextRaised ==
    /\ pc = "cleanup"
    /\ pending \in {"MethodError", "OcrError", "AllMethodsFailed", "FileNotFoundError"}

(* C6: extract_text fails only if every text-layer method and the OCR
   fallback yield nothing usable: with a surviving text-layer result it
   returns a text even if OCR raises or returns nothing, and a method that
   raises inside never aborts it.  (SpecText) *)
C6_FailsOnlyWhenNothingUsable ==
    outputs # NoOutputs =>
        /\ SurvivorExists => pc = "extracted" /\ pending = "" /\ extracted_text.raw > 0
        /\ ExtractTextRaised =>
              /\ pending = "AllMethodsFailed"
              /\ ~SurvivorExists
              /\ ocr_calls = 1
              /\ ~(ocr.k = "text" /\ ocr.text.raw > 0)
        /\ pc \in {"extracted", "cleanup"}
        /\ pc = "cleanup" => ExtractTextRaised

C6_ReturnedDespiteFailures ==
    /\ pc = "extracted"
    /\ outputs # NoOutputs
    /\ outputs["pdfplumber"].k = "raise"
    /\ outputs["PyMuPDF"].text.n = MinMethodLen
    /\ ocr.k = "raise"
    /\ ocr_calls = 1
    /\ extracted_text.src = "PyPDF2"

Counted == processed_count + skipped_count + failed_count

(* C7: when the run over a feed of n items ends, every item was counted in
   exactly one of processed, skipped, failed, so their sum is n; a 3-item
   feed whose item 2 fails to download and item 3 is a duplicate ends with
   1, 1, 1.  (Spec) *)
C7_EveryItemCountedOnce ==
    /\ pc = "done" => Counted = feedLen
    /\ pc = "dedupe" => Counted = idx - 1
    /\ pc = "item_done" => Counted = idx
    /\ pc = "done" /\ log = <<"ok", "download_failed", "duplicate">> =>
          processed_count = 1 /\ skipped_count = 1 /\ failed_count = 1

C7_ThreeItemRunEnded ==
    /\ pc = "done"
    /\ feedLen = 3
    /\ log = <<"ok", "download_failed", "duplicate">>
    /\ processed_count = 1
    /\ skipped_count = 1
    /\ failed_count = 1

(* C8: for every item whose download returned a temporary file, the removal
   of that file is performed before the loop moves to the next item, on
   every exit path of the item.  (Spec) *)
C8_TempFileRemovedBeforeNextItem ==
    /\ [](pc \in {"item_done", "done"} /\ downloaded =>
            cleanup_called /\ temp_file \in {"removed", "remove_failed"})
    /\ [][downloaded /\ (idx' # idx \/ pc' = "done") =>
            cleanup_called /\ temp_file \in {"removed", "remove_failed"}]_vars

C8_RemovedAfterPersistenceFailure ==
    /\ pc = "item_done"
    /\ downloaded
    /\ pending = "DatabaseSaveFailed"
    /\ temp_file = "removed"

(* C9: a failure while one item is handled never aborts the batch: every
   item of the feed is handled, in feed order, and the run ends after the
   last one.  (FairSpec) *)
C9_BatchNeverAborts ==
    /\ <>(pc = "done" /\ Len(log) = feedLen)
    /\ [](pc # "aborted")
    /\ [][/\ idx' \in {idx, idx + 1}
          /\ Len(log') \in {Len(log), Len(log) + 1}
          /\ Len(log') = Len(log) + 1 => Len(log') = idx /\ idx' = idx]_vars

C9_RunEndedAfterFailures ==
    /\ pc = "done"
    /\ feedLen = 3
    /\ log = <<"error", "download_failed", "ok">>

(* C10: when the records of one document are inserted, a failed insert does
   not keep the remaining records from being attempted, and the item is
   still counted as processed.  (SpecSave) *)
C10_FailedInsertDoesNotStopTheRest ==
    /\ pc = "insert" => Len(attempts) = cursor - 1 /\ pending = ""
    /\ pc \in {"cleanup", "item_done"} /\ pending = "" =>
          /\ Len(attempts) = Len(data)
          /\ \A i \in DOMAIN data :
                data[i] # NoRecord => attempts[i] \in {"inserted", "insert_failed"}
          /\ processed_count = 1
          /\ failed_count = 0
    /\ pending # "" => pending = "DatabaseSaveFailed" /\ attempts = <<>>

C10_ProcessedDespiteFailedInsert ==
    /\ pc = "item_done"
    /\ Len(data) = 3
    /\ attempts = <<"insert_failed", "inserted", "insert_failed">>
    /\ processed_count = 1
    /\ log = <<"ok">>

(* C11: no error of the persistence collaborator leaves save_in_database:
   whatever the store does, a failure to obtain the database or collection
   handle included, save_in_database returns normally and the item is not
   counted as failed because of it.  (SpecSave) *)
C11_StoreErrorsNotPropagated ==
    /\ pending # "DatabaseSaveFailed"
    /\ pc = "item_done" => processed_count = 1 /\ failed_count = 0

(* C11, the state that refutes it: the handles could not be obtained, the
   exception was raised again at line 43 and the item was counted failed *)
C11_HandleFailureCountedFailed ==
    /\ pc = "item_done"
    /\ pending = "DatabaseSaveFailed"
    /\ attempts = <<>>
    /\ processed_count = 0
    /\ failed_count = 1
    /\ log = <<"error">>

(* C12: an item the dedupe collaborator reports as already processed is
   only counted as skipped: it is not downloaded, not text-extracted, not
   sent to the LLM and not persisted; and the dedupe check of an item
   always precedes its download.  (Spec) *)
C12_DuplicateOnlySkipped ==
    /\ [](pc = "item_done" /\ log[idx] = "duplicate" =>
            /\ ~downloaded
            /\ temp_file = "none"
            /\ ~cleanup_called
            /\ outputs = NoOutputs
            /\ ocr_calls = 0
            /\ llm_calls = <<>>
            /\ data = <<>>
            /\ ~artifact
            /\ attempts = <<>>
            /\ pending = "")
    /\ [][pc = "dedupe" /\ log' = Append(log, "duplicate") =>
            /\ skipped_count' = skipped_count + 1
            /\ processed_count' = processed_count
            /\ failed_count' = failed_count
            /\ pc' = "item_done"
            /\ Len(log') = idx]_vars
    /\ [][pc' = "download" /\ pc # "download" => pc = "dedupe" /\ idx' = idx /\ log' = log]_vars
    /\ [](pc = "download" => Len(log) = idx - 1 /\ ~downloaded)

C12_DuplicateAfterProcessedItem ==
    /\ pc = "item_done"
    /\ idx = 2
    /\ log = <<"ok", "duplicate">>
    /\ skipped_count = 1
    /\ processed_count = 1
    /\ ~downloaded

(* C13: no field of a record returned by process_document is an empty string
   or an empty list; absence of a value is the sentinel "None", never a
   missing key, on every path and after post-processing.  (SpecDoc) *)
C13_NoEmptyOrMissingField ==
    DocReturned =>
        \A i \in DOMAIN data :
            /\ \A key \in DOMAIN data[i] : data[i][key] \notin {Str(""), List(<<>>)}
            /\ {"document_date", "notice_date", "department_name", "phi_themes"}
                  \subseteq DOMAIN data[i]

(* C13, the state that refutes it: the themes held "None" and line 96 put
   an empty list in their place *)
C13_EmptyThemeListReturned ==
    /\ DocReturned
    /\ improvement = "object"
    /\ Has(final_result, "phi_themes")
    /\ final_result["phi_themes"] = List(<<"None">>)
    /\ data[1]["phi_themes"] = List(<<>>)

MappingKeys == {"dates", "impact_score"}

(* C14, as stated: every record returned by process_document has the keys
   dates and impact_score with mapping values, on every path and whatever
   the LLM replies omitted.  (SpecDoc) *)
C14_MappingsAlways ==
    DocReturned =>
        \A key \in MappingKeys : Has(data[1], key) /\ data[1][key].t = "map"

(* C14, amended: every record returned by process_document has the keys
   dates and impact_score, on every path; a key the LLM reply behind the
   record omitted has an empty mapping as its value, and a value the reply
   gave is returned as given, mapping or not.  (SpecDoc) *)
C14_MissingMappingsAdded ==
    DocReturned =>
        /\ reply_record # NoRecord
        /\ \A key \in MappingKeys :
              /\ Has(data[1], key)
              /\ data[1][key] = Get(reply_record, key, EmptyMap)
              /\ ~Has(reply_record, key) => data[1][key].t = "map" /\ data[1][key].l = <<>>

C14_MappingsAddedAfterImprovement ==
    /\ DocReturned
    /\ improvement = "object"
    /\ ~Has(reply_record, "dates")
    /\ ~Has(reply_record, "impact_score")
    /\ data[1]["dates"] = EmptyMap
    /\ data[1]["impact_score"] = EmptyMap

IsDate(v) == v.t = "str" /\ v.s \notin {"None", ""}

(* C15: the date cross-fill of process_document: document_date "None" and
   notice_date a date give a record whose document_date is the notice_date;
   notice_date "None" and document_date a date give a record whose
   notice_date is the document_date; both "None" or both dates leave both
   as they are.  (SpecDoc) *)
C15_DateCrossFill ==
    DocReturned /\ Has(final_result, "document_date") /\ Has(final_result, "notice_date") =>
        LET dd == final_result["document_date"]
            nd == final_result["notice_date"]
            r == data[1]
        IN /\ dd = NoneStr /\ IsDate(nd) => r["document_date"] = nd /\ r["notice_date"] = nd
           /\ nd = NoneStr /\ IsDate(dd) => r["notice_date"] = dd /\ r["document_date"] = dd
           /\ (dd = NoneStr /\ nd = NoneStr) \/ (IsDate(dd) /\ IsDate(nd)) =>
                 r["document_date"] = dd /\ r["notice_date"] = nd

C15_NoticeDateFilled ==
    /\ DocReturned
    /\ Has(final_result, "document_date")
    /\ Has(final_result, "notice_date")
    /\ final_result["notice_date"] = NoneStr
    /\ final_result["document_date"] = D2
    /\ data[1]["notice_date"] = D2
    /\ data[1]["document_date"] = D2

NotSentinel(x) == x # "None"

(* C16: the theme sentinel in process_document: when the theme list holds
   "None", exactly the "None" entries are removed and every other theme
   stays in the list handed to the theme grouping and returned; a list
   with no "None" is left as it is.  (SpecDoc) *)
C16_OnlySentinelRemoved ==
    DocReturned /\ Has(final_result, "phi_themes") /\ final_result["phi_themes"].t = "list" =>
        LET kept == List(SelectSeq(final_result["phi_themes"].l, NotSentinel))
        IN /\ data[1]["phi_themes"] = kept
           /\ data[1]["phi_theme_categorized"] = get_grouped_themes(kept)

(* C16, the state that refutes it: "Healthcare" was dropped with "None" *)
C16_OtherThemesDropped ==
    /\ DocReturned
    /\ Has(final_result, "phi_themes")
    /\ final_result["phi_themes"] = List(<<"Healthcare", "None">>)
    /\ data[1]["phi_themes"] = List(<<>>)
    /\ data[1]["phi_theme_categorized"] = get_grouped_themes(List(<<>>))

(* C16, the part that holds: a list with no "None" is left as it is *)
C16_ListWithoutSentinelKept ==
    DocReturned /\ Has(final_result, "phi_themes") /\ final_result["phi_themes"].t = "list"
        /\ "None" \notin Range(final_result["phi_themes"].l) =>
        data[1]["phi_themes"] = final_result["phi_themes"]

(* C17: the text returned by extract_text is never the output of a
   text-layer method whose output was under 50 characters: it is the output
   of a text-layer method that passed the length filter, or the output of
   the OCR collaborator.  (SpecText) *)
C17_ShortMethodTextNeverReturned ==
    pc = "extracted" =>
        \/ /\ extracted_text.src = "ocr"
           /\ ocr_calls = 1
           /\ ocr.k = "text"
           /\ extracted_text = ocr.text
        \/ /\ extracted_text.src \in MethodNames
           /\ outputs[extracted_text.src] = Outcome("text", extracted_text)
           /\ extracted_text.n > MinMethodLen
           /\ extracted_text.raw >= MinMethodLen

C17_LongerTextReturnedOverShort ==
    /\ pc = "extracted"
    /\ outputs["pdfplumber"].k = "text"
    /\ outputs["pdfplumber"].text.n = MinMethodLen - 1
    /\ outputs["PyMuPDF"].k = "text"
    /\ outputs["PyMuPDF"].text.n = MinMethodLen
    /\ extracted_text.src = "PyPDF2"
    /\ extracted_text.n = MinMethodLen + 1

(* C18: _calculate_quality_score returns exactly 0 for every text whose
   stripped length is under 10 characters, the empty text included.
   (SpecScore) *)
C18_ShortTextScoresZero ==
    pc = "scored" /\ sample.n < 10 => score = Whole(0)

C18_NineCharactersScoredZero ==
    /\ pc = "scored"
    /\ sample.n = 9
    /\ sample.words = <<5>>
    /\ sample.tab
    /\ score = Whole(0)
    /\ quality_sum(sample).num > 0

InRange(x, lo, hi) == FracLeq(Whole(lo), x) /\ FracLeq(x, Whole(hi))

(* C19: for every text the quality score lies in [0, 100]: the sum of the
   six weighted parts (diversity up to 20, word-length fit up to 15, word
   validity up to 20, tabular bonus 8, sentence quality up to 12,
   line-length fit up to 15) is never negative and never above 100.
   (SpecScore) *)
C19_ScoreWithinBounds ==
    pc = "scored" =>
        /\ score.den > 0
        /\ InRange(score, 0, 100)
        /\ InRange(quality_sum(sample), 0, 100)
        /\ InRange(char_diversity_score(sample), 0, 20)
        /\ InRange(word_len_score_part(sample), 0, 15)
        /\ InRange(word_validity_score(sample), 0, 20)
        /\ structure_score(sample) \in {Whole(0), Whole(8)}
        /\ InRange(sentence_score(sample), 0, 12)
        /\ InRange(line_score_part(sample), 0, 15)
        /\ sample.n >= 10 => score = quality_sum(sample)

C19_LongWordsLongLinesScored ==
    /\ pc = "scored"
    /\ sample.words = <<40, 40>>
    /\ sample.lines = <<400>>
    /\ sample.chars = 9
    /\ ~sample.tab
    /\ score.num > 0

CallOrder == <<"extract", "validate", "improve">>

(* C20: within one document the LLM calls are strictly ordered: the
   extraction call has completed before the validation call is issued, and
   the validation call before an improvement call; validation is issued
   only after extraction succeeded, and no path reaches validation or
   improvement without stage 1.  (SpecDoc) *)
C20_LlmCallsInOrder ==
    /\ [](\E k \in 0..3 : llm_calls = SubSeq(CallOrder, 1, k))
    /\ [](Len(llm_calls) >= 2 => stage1.ok /\ validation # NoValidation)
    /\ [][Len(llm_calls') = Len(llm_calls) + 1 /\ Len(llm_calls) = 1 =>
            /\ stage1.ok
            /\ initial_result # NoRecord
            /\ stage1' = stage1
            /\ initial_result' = initial_result]_vars
    /\ [][Len(llm_calls') = Len(llm_calls) + 1 /\ Len(llm_calls) = 2 =>
            /\ validation # NoValidation
            /\ ~validation_passes(validation)
            /\ validation' = validation]_vars

C20_AllThreeCallsMade ==
    /\ pc = "post"
    /\ llm_calls = CallOrder
    /\ stage1.ok
    /\ validation.all_correct = "false"
    /\ improvement = "object"

(* the validation reply parsed to an object whose all_correct is a *)
ValidationSaid(a) == validation.reply = "object" /\ validation.all_correct = a

(* C21, as stated: the improvement call is made only when the validation
   reply carries the value false for all_correct.  (SpecDoc) *)
C21_ImproveOnlyOnFalse ==
    "improve" \in Range(llm_calls) => ValidationSaid("false")

(* C21: if the validation reply has all_correct true, or is an object with
   no all_correct key, the accept branch is taken: no improvement call is
   made and the record handed on, and returned, is the stage-1 record; the
   improvement call is made only when the reply is an object whose
   all_correct is false or null, the values the test of line 70 takes as
   false.  (SpecDoc) *)
C21_AcceptBranch ==
    /\ [][pc = "validate" /\ pc' # pc /\ validation'.reply = "object"
            /\ validation'.all_correct \in {"true", "absent"} =>
             /\ pc' = "post"
             /\ llm_calls' = <<"extract", "validate">>
             /\ final_result' = initial_result]_vars
    /\ [](ValidationSaid("true") \/ ValidationSaid("absent") =>
             /\ "improve" \notin Range(llm_calls)
             /\ pc \in {"post", "artifact"} => final_result = initial_result
             /\ DocReturned => SameOutsidePost(data[1], initial_result))
    /\ []("improve" \in Range(llm_calls) =>
             ValidationSaid("false") \/ ValidationSaid("null"))

C21_AcceptedWithoutKey ==
    /\ DocReturned
    /\ ValidationSaid("absent")
    /\ llm_calls = <<"extract", "validate">>
    /\ final_result = initial_result
    /\ Has(data[1], "unique_id")

(* how many times call k was issued for the current document *)
Calls(k) == Cardinality({i \in DOMAIN llm_calls : llm_calls[i] = k})

(* process_document is past stage 1, has returned, or has raised *)
PastStage1 == pc \in {"validate", "improve", "post", "artifact"} \/ DocRaised

(* C22: no call is retried: for one document process_document issues
   exactly one extraction call, at most one validation call and at most
   one improvement call, at most three in all, whatever the calls return
   or raise; and for one feed item the download is attempted at most once:
   the download step is entered only from the dedupe test of the item, it
   is left by every attempt, and the dedupe test is entered only with the
   next item.  (Spec) *)
C22_NoCallRetried ==
    /\ [](/\ Len(llm_calls) <= 3
          /\ \A k \in Range(CallOrder) : Calls(k) <= 1
          /\ PastStage1 => Calls("extract") = 1)
    /\ [][llm_calls' # llm_calls /\ llm_calls' # <<>> =>
            \E k \in Range(CallOrder) \ Range(llm_calls) : llm_calls' = Append(llm_calls, k)]_vars
    /\ [][pc = "download" => pc' # "download"]_vars
    /\ [][pc' = "download" => pc = "dedupe"]_vars
    /\ [][pc' = "dedupe" => pc = "start" \/ (pc = "item_done" /\ idx' = idx + 1)]_vars

C22_ThreeCallsAfterFailedDownload ==
    /\ idx = 2
    /\ "download_failed" \in Range(log)
    /\ DocRaised
    /\ llm_calls = CallOrder
    /\ improvement = "raise"

(* the counters of the one stage-1 call that the replies enumerated have *)
Stage1Usage == Usage("u1")

(* C23: the total_token_usage of the record process_document returns is
   always the counters of the stage-1 call: on the accept path, after a
   successful improvement, even if the improvement reply carries a
   total_token_usage of its own, and after a failed improvement.  (SpecDoc) *)
C23_TokenUsageOfStage1 ==
    /\ pc \in {"validate", "improve", "post", "artifact"} =>
          /\ Has(initial_result, "total_token_usage")
          /\ initial_result["total_token_usage"] = Stage1Usage
    /\ pc \in {"post", "artifact"} =>
          /\ Has(final_result, "total_token_usage")
          /\ final_result["total_token_usage"] = Stage1Usage
    /\ DocReturned =>
          /\ Len(data) = 1
          /\ Has(data[1], "total_token_usage")
          /\ data[1]["total_token_usage"] = Stage1Usage

C23_ReplyCountersNotReturned ==
    /\ DocReturned
    /\ improvement = "object"
    /\ Has(reply_record, "total_token_usage")
    /\ reply_record["total_token_usage"] = Usage("u9")
    /\ data[1]["total_token_usage"] = Stage1Usage

(* extract_text has ended, by a return or by an exception, and its locals
   are still there *)
ExtractTextEnded == outputs # NoOutputs /\ pc \in {"extracted", "cleanup"}

(* C24: in one extract_text call the OCR collaborator is invoked at most
   once, and exactly when no text-layer result survived the length filter
   or the best surviving quality is below 70; with a best surviving quality
   of 70 or more OCR is never invoked and the best text-layer text is
   returned.  (SpecText) *)
C24_OcrInvokedExactlyWhenNeeded ==
    ExtractTextEnded =>
        /\ ocr_calls \in {0, 1}
        /\ ocr_calls = 1 <=> (results = NoResults \/ BestQuality < LowQuality)
        /\ results # NoResults /\ BestQuality >= LowQuality =>
              /\ ocr_calls = 0
              /\ pc = "extracted"
              /\ ReturnedTextLayer

C24_NoOcrAtThreshold ==
    /\ ExtractTextEnded
    /\ DOMAIN results = {"PyMuPDF", "PyPDF2"}
    /\ results["PyMuPDF"].quality_score = LowQuality - 1
    /\ BestQuality = LowQuality
    /\ ocr_calls = 0
    /\ extracted_text.src = "PyPDF2"

(* C25, as stated: the length filter discards a text-layer result exactly
   when it is shorter than 50 characters; a result of 50 characters or
   more, one of exactly 50 included, survives and is scored.  (SpecText) *)
C25_FiftyCharactersSurvive ==
    ExtractTextEnded =>
        \A m \in MethodNames :
            /\ m \in DOMAIN results <=> outputs[m].k = "text" /\ outputs[m].text.n >= MinMethodLen
            /\ m \in DOMAIN results =>
                  /\ results[m].text = outputs[m].text
                  /\ results[m].quality_score = calculate_quality_score(outputs[m].text)

(* a result of exactly 50 characters is discarded: with nothing else at
   hand extract_text turns to OCR as if no method had produced a text *)
C25_FiftyCharactersDiscarded ==
    /\ ExtractTextEnded
    /\ \A m \in MethodNames : outputs[m].k = "text" /\ outputs[m].text.n = MinMethodLen
    /\ results = NoResults
    /\ ocr_calls = 1
    /\ pending = "AllMethodsFailed"

(* C26: when at least one text-layer result survives and OCR does not
   replace it, extract_text returns, and what it returns is the text of a
   surviving method whose quality score is the maximum over all surviving
   methods.  (SpecText) *)
C26_BestSurvivorReturned ==
    ExtractTextEnded /\ results # NoResults =>
        /\ pc = "extracted"
        /\ ~ReturnedOcr =>
              \E m \in DOMAIN results :
                  /\ extracted_text = results[m].text
                  /\ extracted_text.src = m
                  /\ \A o \in DOMAIN results :
                        results[o].quality_score <= results[m].quality_score

C26_SecondMethodIsBest ==
    /\ ExtractTextEnded
    /\ DOMAIN results = MethodNames
    /\ results["pdfplumber"].quality_score = LowQuality - 1
    /\ results["PyMuPDF"].quality_score = LowQuality
    /\ results["PyPDF2"].quality_score = LowQuality
    /\ extracted_text = results["PyMuPDF"].text

(* the key is returned with the value the working record had for it *)
KeptFromWorkingRecord(key) ==
    Has(final_result, key) => Has(data[1], key) /\ data[1][key] = final_result[key]

(* C27, as stated: process_document assigns a fresh unique identifier and
   today's date only when the working record does not carry them: a record
   that has unique_id or date_added keeps those values in the returned
   record, and one that has not gets the fresh ones.  (SpecDoc) *)
C27_IdentifierKeptIfPresent ==
    DocReturned =>
        /\ KeptFromWorkingRecord("unique_id")
        /\ KeptFromWorkingRecord("date_added")
        /\ ~Has(final_result, "unique_id") => data[1]["unique_id"] = Str(FreshUuid)
        /\ ~Has(final_result, "date_added") => data[1]["date_added"] = Str(Today)

(* the identifier the improvement reply gave is overwritten *)
C27_IdentifierOverwritten ==
    /\ DocReturned
    /\ improvement = "object"
    /\ Has(final_result, "unique_id")
    /\ final_result["unique_id"] = Str("uuid-llm")
    /\ data[1]["unique_id"] = Str(FreshUuid)

(* no field of r has the value a later notice of the array has for it *)
NothingOfLaterNotice(r) ==
    \A key \in (DOMAIN r) \cap (DOMAIN LaterNotice) : r[key] # LaterNotice[key]

(* stage 1 took a record from a reply that parsed to an array of notices *)
Stage1FromArray == stage1.ok /\ stage1.elems >= 1

(* C28: if the stage-1 reply parses to a non-empty array of n notices, the
   working record that is validated and returned is built from the array's
   first element only, and process_document returns a list of exactly one
   record whatever n is; the elements after the first never appear in the
   output.  (SpecDoc) *)
C28_FirstElementOnly ==
    Stage1FromArray =>
        /\ pc = "validate" =>
              initial_result = Put(fix_output_structure(reply_record),
                                   "total_token_usage", Stage1Usage)
        /\ pc \in {"validate", "improve", "post", "artifact"} =>
              NothingOfLaterNotice(initial_result)
        /\ DocReturned =>
              /\ Len(data) = 1
              /\ improvement # "object" =>
                    /\ NothingOfLaterNotice(data[1])
                    /\ SameOutsidePost(data[1], initial_result)

C28_OneRecordOfThreeNotices ==
    /\ DocReturned
    /\ stage1.elems = 3
    /\ improvement = "none"
    /\ Len(data) = 1
    /\ data[1]["notice_number"] = Str("N-1")
    /\ ~Has(data[1], "notice_date")

(* the completion has the bare word w as the value of key k, followed by a
   comma, a newline or the closing brace *)
BareWordAt(w, k) ==
    \E i \in 2..(Len(response_content) - 1) :
        /\ response_content[i] = w
        /\ response_content[i - 1] = k
        /\ response_content[i + 1] \in AfterBareNone

(* the completion without its fence, if it has one *)
Unfenced ==
    IF response_content # <<>> /\ Head(response_content) \in {"fence_json", "fence"}
    THEN SubSeq(strip(response_content), 3, Len(strip(response_content)) - 2)
    ELSE response_content

(* C29, as stated: a reply in which a field's value is a bare null before a
   comma, a newline or a closing brace is parsed into a record in which
   that field's value is the string "None", never a null value; and a reply
   wrapped in a Markdown code fence is parsed the same as the unwrapped
   reply.  (SpecParse) *)
C29_BareNullBecomesNone ==
    pc = "parsed" =>
        /\ \A k \in ObjectKeys :
              BareWordAt("null", k) /\ parsed_response.ok =>
                  /\ Has(parsed_response.rec, key_name(k))
                  /\ parsed_response.rec[key_name(k)] = NoneStr
        /\ parsed_response = json_loads(clean_response(Unfenced))

(* a null before a comma is parsed to a null value *)
C29_NullStaysNull ==
    /\ pc = "parsed"
    /\ Head(response_content) = "fence_json"
    /\ BareWordAt("null", "a: ")
    /\ \E i \in DOMAIN response_content :
          response_content[i] = "," /\ response_content[i - 1] = "null"
    /\ parsed_response.ok
    /\ parsed_response.rec["a"] = Null
    /\ parsed_response.rec["b"] = Str("x")

(* what does hold: the bare word None in the three positions is parsed to
   the string "None", and a fence makes no difference.  (SpecParse) *)
C29_BareNoneBecomesNone ==
    pc = "parsed" =>
        /\ \A k \in ObjectKeys :
              BareWordAt("None", k) /\ parsed_response.ok =>
                  /\ Has(parsed_response.rec, key_name(k))
                  /\ parsed_response.rec[key_name(k)] = NoneStr
        /\ parsed_response = json_loads(clean_response(Unfenced))

(* the OCR collaborator was called and returned the path of a file it wrote *)
OcrWroteFile == ocr_calls = 1 /\ ocr.k \in {"text", "unreadable"}

(* C30, as stated: whenever the OCR collaborator returns a path to an
   output file during extract_text, that file is deleted before
   extract_text returns or raises, on the low-quality path and on the
   last-resort path, also when reading the file fails.  (SpecText) *)
C30_OcrFileDeleted ==
    ExtractTextEnded /\ OcrWroteFile => md_file = "removed"

(* the read of the OCR file failed on the low-quality path: extract_text
   returned the text-layer text and the file is still there *)
C30_OcrFileLeftAfterFailedRead ==
    /\ ExtractTextEnded
    /\ pc = "extracted"
    /\ results # NoResults
    /\ BestQuality < LowQuality
    /\ ocr_calls = 1
    /\ ocr.k = "unreadable"
    /\ md_file = "on_disk"

(* what does hold: a file that was read is deleted, on either path.
   (SpecText) *)
C30_ReadFileDeleted ==
    ExtractTextEnded /\ ocr_calls = 1 /\ ocr.k = "text" => md_file = "removed"

(* the text extract_text returned is empty or under 10 characters stripped *)
UnusableText == extracted_text.raw = 0 \/ extracted_text.n < MinTextLen

(* C31: the LLM is never invoked on unusable text: if extract_text returns
   a text whose stripped length is under 10 characters (as the last-resort
   OCR path can), process_single_pdf raises before any LLM call, the item
   is counted failed, and nothing is written or persisted for it.  (Spec) *)
C31_NoLlmCallOnUnusableText ==
    /\ [][pc = "extracted" /\ pc' # pc /\ UnusableText =>
            /\ pc' = "cleanup"
            /\ pending' = "InsufficientText"
            /\ llm_calls' = <<>>]_vars
    /\ [][pc' = "stage1" /\ pc # "stage1" => pc = "extracted" /\ ~UnusableText]_vars
    /\ [][llm_calls = <<>> /\ llm_calls' # <<>> => pc = "stage1"]_vars
    /\ [](pending = "InsufficientText" =>
            /\ pc \in {"cleanup", "item_done"}
            /\ llm_calls = <<>>
            /\ data = <<>>
            /\ ~artifact
            /\ attempts = <<>>)
    /\ [][pending = "InsufficientText" /\ pc' = "item_done" =>
            /\ failed_count' = failed_count + 1
            /\ processed_count' = processed_count
            /\ skipped_count' = skipped_count]_vars

(* the last-resort OCR text of nine characters was turned down *)
C31_ShortOcrTextRejected ==
    /\ pc = "cleanup"
    /\ pending = "InsufficientText"
    /\ llm_calls = <<>>
    /\ ~artifact
    /\ failed_count = 0
    /\ idx = 2
    /\ processed_count = 1

(* C32: for each item the JSON artifact is written before any record is
   inserted into the store; if writing the artifact fails, no insert is
   attempted for the item and the item is counted failed; and no item is
   counted processed unless its artifact write and its save_in_database
   call both returned normally.  (Spec) *)
C32_ArtifactBeforeStore ==
    /\ [](pc \in {"save_open", "insert"} \/ attempts # <<>> => artifact)
    /\ [][attempts' # attempts /\ attempts' # <<>> => artifact /\ pc = "insert"]_vars
    /\ [](pending = "ArtifactWriteFailed" =>
            /\ pc \in {"cleanup", "item_done"}
            /\ ~artifact
            /\ attempts = <<>>)
    /\ [][pending = "ArtifactWriteFailed" /\ pc' = "item_done" =>
            /\ failed_count' = failed_count + 1
            /\ processed_count' = processed_count]_vars
    /\ [][processed_count' # processed_count =>
            /\ processed_count' = processed_count + 1
            /\ artifact
            /\ pending = ""
            /\ pc = "insert" /\ cursor > Len(data)
            /\ failed_count' = failed_count]_vars

C32_FailedWriteCountedFailed ==
    /\ pc = "item_done"
    /\ pending = "ArtifactWriteFailed"
    /\ data # <<>>
    /\ attempts = <<>>
    /\ log = <<"ok", "error">>
    /\ processed_count = 1
    /\ failed_count = 1

(* the fields of the extraction schema that the replies enumerated carry *)
SchemaFields == {"notice_number", "document_date", "notice_date", "department_name", "phi_themes"}

(* the keys _fix_output_structure backfills (lines 310-319) *)
BackfilledKeys == {"dates", "impact_score", "agency"}

(* C33: after a successful improvement the returned record is built from
   the improvement reply alone: of the stage-1 record only the token-usage
   counters are carried over, so a schema field the stage-1 record had and
   the improvement reply omitted is absent from the returned record, and
   the backfilled dates, impact_score and agency are derived from the
   improvement reply, not taken from stage 1.  (SpecDoc) *)
C33_BuiltFromImprovementAlone ==
    DocReturned /\ improvement = "object" =>
        /\ data[1]["total_token_usage"] = initial_result["total_token_usage"]
        /\ \A key \in SchemaFields :
              Has(initial_result, key) /\ ~Has(reply_record, key) => ~Has(data[1], key)
        /\ \A key \in (DOMAIN data[1]) \ (PostKeys \cup BackfilledKeys \cup {"total_token_usage"}) :
              Has(reply_record, key) /\ data[1][key] = reply_record[key]
        /\ \A key \in {"dates", "impact_score"} :
              data[1][key] = Get(reply_record, key, EmptyMap)
        /\ data[1]["agency"] =
              Get(reply_record, "agency", Get(reply_record, "department_name", NoneStr))

C33_Stage1FieldsDropped ==
    /\ DocReturned
    /\ improvement = "object"
    /\ Get(initial_result, "department_name", NoneStr) = Str("DOH")
    /\ Get(initial_result, "agency", NoneStr) = Str("DOH")
    /\ Has(initial_result, "phi_themes")
    /\ Get(initial_result, "dates", EmptyMap) # EmptyMap
    /\ ~Has(data[1], "department_name")
    /\ ~Has(data[1], "phi_themes")
    /\ data[1]["agency"] = NoneStr
    /\ data[1]["dates"] = EmptyMap

(* the surviving methods whose quality score is the highest *)
TopMethods == {m \in DOMAIN results : results[m].quality_score = BestQuality}

(* C34: when several surviving text-layer methods share the highest
   quality score and a text-layer text is returned, it is the text of the
   earliest of them in the order pdfplumber, PyMuPDF, PyPDF2: every
   survivor tried before the chosen method has a strictly lower score, so
   the choice is determined by the method outputs.  (SpecText) *)
C34_EarliestOfTiedMethods ==
    ExtractTextEnded /\ results # NoResults /\ ~ReturnedOcr =>
        /\ extracted_text.src \in TopMethods
        /\ extracted_text = results[extracted_text.src].text
        /\ \A o \in TopMethods : Pos(extracted_text.src) <= Pos(o)
        /\ \A o \in DOMAIN results :
              Pos(o) < Pos(extracted_text.src) => results[o].quality_score < BestQuality

C34_ThreeWayTieGoesToFirst ==
    /\ ExtractTextEnded
    /\ pc = "extracted"
    /\ TopMethods = MethodNames
    /\ ocr_calls = 0
    /\ extracted_text.src = "pdfplumber"

====
